---- MODULE Spec2Model ----
(***************************************************************************)
(* State-machine model of the "Fog of Tank" game server                    *)
(* (src/game/src/backend/server.cts): the GameManager registry, the        *)
(* placement / move / bomb rules, the fog-of-war reveal and the messages   *)
(* each handler sends.                                                     *)
(*                                                                         *)
(* JavaScript arrays are 0-based, TLA+ sequences 1-based: players[i] of    *)
(* the source is players[i + 1] here.  A board cell board[y][x] of the     *)
(* source is board[<<x, y>>] here.  null (winner) is NoWinner.             *)
(***************************************************************************)
EXTENDS Integers, Sequences, FiniteSets, TLC

\* ------------------------------------------------------------------ bounds
\* The source plays on an 8 x 8 board with 3 tanks per player; the model is
\* checked on a smaller board with fewer tanks.
BOARD_SIZE == 3
TANKS_PER_PLAYER == 2
\* moveCount is unbounded in the source; clients stop sending move / bomb
\* intents to a game whose moveCount reached MaxMoves.
MaxMoves == 3

\* ------------------------------------------------------- program constants
EXPLOSION_RADIUS == 1

EMPTY == 0
TANK == 1
HIT == 2
MISS == 3
REVEALED == 4

WAITING == "waiting"
PLACEMENT == "placement"
BATTLE == "battle"
GAME_OVER == "gameover"

\* winner: number | null
NoWinner == -1

\* WebSocket.readyState: OPEN, or not OPEN with the 'close' event still to
\* come (CLOSING), or no such socket (GONE: never connected, or closed and
\* its 'close' event handled).
OPEN == "OPEN"
CLOSING == "CLOSING"
GONE == "GONE"

\* ------------------------------------------------------------ input domains
\* The sockets that may connect.
Conns == {"w1", "w2"}

\* Room ids clients name in join / createRoom messages.
RoomInputs == {"room", "ROOM", "bad"}

\* Coordinates clients send in moveTank and bomb: the cells of the bottom row
\* tanks are placed on, one cell away from the first two, and one out of
\* bounds.
PlaceInputs == {<<i, 0>> : i \in 0 .. TANKS_PER_PLAYER - 1} \cup {<<BOARD_SIZE, 0>>}

CoordInputs == PlaceInputs \cup {<<2, 2>>}

\* --------------------------------------------------------------- utilities
Pos == (0 .. BOARD_SIZE - 1) \X (0 .. BOARD_SIZE - 1)

\* String.prototype.toUpperCase on the ids in use.
toUpperCase(s) ==
  CASE s = "room" -> "ROOM"
    [] s = "side" -> "SIDE"
    [] s = "bad" -> "BAD"
    [] OTHER -> s

\* /^[A-Za-z0-9]{4,10}$/ on the ids in use.
validateRoomId(roomId) == roomId \in {"room", "ROOM", "side", "SIDE"}

createEmptyBoard == [p \in Pos |-> EMPTY]

isValidPosition(x, y) == x >= 0 /\ y >= 0 /\ x < BOARD_SIZE /\ y < BOARD_SIZE

\* Map.delete
MapDelete(m, k) == [j \in DOMAIN m \ {k} |-> m[j]]

\* Map.set
MapSet(m, k, v) == [j \in DOMAIN m \cup {k} |-> IF j = k THEN v ELSE m[j]]

VARIABLES
  games,              \* GameManager.games: Map<string, GameState>
  playerConnections,  \* GameManager.playerConnections
  allConnections,     \* GameManager.allConnections
  readyState,         \* ws.readyState of every socket
  history             \* per live game: who acted last (an observer, not code)

vars == <<games, playerConnections, allConnections, readyState, history>>

\* ---------------------------------------------------------------- messages
\* The messages a handler sends are its output (the `out` of its result), in
\* the order sent; they are not kept in the state.  Every message is a record
\* with a type and a recipient ("all": every open socket of allConnections).
\* A player's display name is its socket; timestamps and the echoed x, y of
\* placeTankResult are left out.
ToAll == "all"

\* One player's part of gameData.players.
PlayerInfo(p) ==
  [id |-> p.id, name |-> p.name, tanksAlive |-> p.tanksAlive, ready |-> p.ready]

\* Mutant of playerData: enemyBoard is the opponent's own board.
playerData_ShowsEnemy(game, i) ==
  LET player == game.players[i]
      hasEnemy == (3 - i) \in DOMAIN game.players
  IN [gameId |-> game.id,
      phase |-> game.phase,
      currentTurn |-> game.currentTurn,
      winner |-> game.winner,
      moveCount |-> game.moveCount,
      players |-> [k \in 1 .. Len(game.players) |-> PlayerInfo(game.players[k])],
      playerId |-> i - 1,
      myBoard |-> player.board,
      enemyBoard |-> IF hasEnemy THEN game.players[3 - i].board
                     ELSE player.visibleEnemyBoard,
      myTanks |-> player.tanksAlive,
      enemyTanks |-> IF hasEnemy THEN game.players[3 - i].tanksAlive ELSE 0,
      enemyName |-> IF hasEnemy THEN game.players[3 - i].name ELSE "Unknown"]

\* The payload broadcastGameState sends to the player at position i (1-based)
\* of game.players; the other position of a two-slot game is 3 - i.
playerData(game, i) ==
  LET player == game.players[i]
      hasEnemy == (3 - i) \in DOMAIN game.players
  IN [gameId |-> game.id,
      phase |-> game.phase,
      currentTurn |-> game.currentTurn,
      winner |-> game.winner,
      moveCount |-> game.moveCount,
      players |-> [k \in 1 .. Len(game.players) |-> PlayerInfo(game.players[k])],
      playerId |-> i - 1,
      myBoard |-> player.board,
      enemyBoard |-> player.visibleEnemyBoard,
      myTanks |-> player.tanksAlive,
      enemyTanks |-> IF hasEnemy THEN game.players[3 - i].tanksAlive ELSE 0,
      enemyName |-> IF hasEnemy THEN game.players[3 - i].name ELSE "Unknown"]

\* The positions of game.players whose socket is OPEN, in order.
OpenPositions(game, RS) ==
  SelectSeq([k \in 1 .. Len(game.players) |-> k],
            LAMBDA k : RS[game.players[k].ws] = OPEN)

broadcastGameState(game, RS) ==
  LET open == OpenPositions(game, RS)
  IN [k \in 1 .. Len(open) |->
        [type |-> "gameState", to |-> game.players[open[k]].ws,
         view |-> playerData(game, open[k])]]

broadcastGameUpdate(game) ==
  <<[type |-> "gameUpdate", to |-> ToAll, gameId |-> game.id,
     phase |-> game.phase, playerCount |-> Len(game.players)]>>

broadcastNewGame(game) ==
  <<[type |-> "newGame", to |-> ToAll, gameId |-> game.id,
     phase |-> game.phase, playerCount |-> 0]>>

broadcastGameRemoved(gameId) ==
  <<[type |-> "gameRemoved", to |-> ToAll, gameId |-> gameId]>>

\* ---------------------------------------------------------------- registry
\* createGame with a custom room id (the ids clients name are never empty).
\* ok = FALSE stands for the thrown Error.
newGameState(gameId) ==
  [id |-> gameId, players |-> <<>>, currentTurn |-> 0, actionTaken |-> FALSE,
   phase |-> WAITING, winner |-> NoWinner, moveCount |-> 0]
\* Mutant of createGame: an id that is taken gets a new game all the same.
createGame_ReplacesExisting(G, customRoomId) ==
  IF ~validateRoomId(customRoomId)
  THEN [ok |-> FALSE, error |-> "Invalid room ID format", gameId |-> "",
        games |-> G, out |-> <<>>]
  ELSE IF toUpperCase(customRoomId) \in DOMAIN G
  THEN [ok |-> FALSE, error |-> "Room ID already exists", gameId |-> "",
        games |-> MapSet(G, toUpperCase(customRoomId),
                         newGameState(toUpperCase(customRoomId))),
        out |-> <<>>]
  ELSE LET gameId == toUpperCase(customRoomId)
           game == newGameState(gameId)
       IN [ok |-> TRUE, error |-> "", gameId |-> gameId,
           games |-> MapSet(G, gameId, game), out |-> broadcastNewGame(game)]

\* Mutant of createGame: the id is looked up as typed.
createGame_CaseSensitive(G, customRoomId) ==
  IF ~validateRoomId(customRoomId)
  THEN [ok |-> FALSE, error |-> "Invalid room ID format", gameId |-> "",
        games |-> G, out |-> <<>>]
  ELSE IF customRoomId \in DOMAIN G
  THEN [ok |-> FALSE, error |-> "Room ID already exists", gameId |-> "",
        games |-> G, out |-> <<>>]
  ELSE LET gameId == toUpperCase(customRoomId)
           game == newGameState(gameId)
       IN [ok |-> TRUE, error |-> "", gameId |-> gameId,
           games |-> MapSet(G, gameId, game), out |-> broadcastNewGame(game)]

createGame(G, customRoomId) ==
  IF ~validateRoomId(customRoomId)
  THEN [ok |-> FALSE, error |-> "Invalid room ID format", gameId |-> "",
        games |-> G, out |-> <<>>]
  ELSE IF toUpperCase(customRoomId) \in DOMAIN G
  THEN [ok |-> FALSE, error |-> "Room ID already exists", gameId |-> "",
        games |-> G, out |-> <<>>]
  ELSE LET gameId == toUpperCase(customRoomId)
           game == newGameState(gameId)
       IN [ok |-> TRUE, error |-> "", gameId |-> gameId,
           games |-> MapSet(G, gameId, game), out |-> broadcastNewGame(game)]
\* Mutant of activePlayers: the leaver itself still counts.
activePlayers_CountsLeaver(game, RS, ws) ==
  SelectSeq(game.players, LAMBDA p : RS[p.ws] = OPEN)

\* leaveGame: the players still connected once ws is gone.
activePlayers(game, RS, ws) ==
  SelectSeq(game.players, LAMBDA p : RS[p.ws] = OPEN /\ p.ws # ws)

\* leaveGame: the playerDisconnected notices, to every other open player.
disconnectNotices(game, RS, playerId) ==
  LET others == SelectSeq([k \in 1 .. Len(game.players) |-> k],
                          LAMBDA k : k - 1 # playerId /\ RS[game.players[k].ws] = OPEN)
  IN [k \in 1 .. Len(others) |->
        [type |-> "playerDisconnected", to |-> game.players[others[k]].ws,
         playerId |-> playerId]]
\* Mutant of resetToWaiting: the survivor keeps its id and the turn its owner.
resetToWaiting_KeepsNumbers(game, active) ==
  [game EXCEPT !.phase = WAITING, !.players = <<active[1]>>]

\* leaveGame: the reset of a game left with one active player.
resetToWaiting(game, active) ==
  [game EXCEPT !.phase = WAITING,
               !.players = <<[active[1] EXCEPT !.id = 0]>>,
               !.currentTurn = 0]

leaveGame(G, PC, RS, ws) ==
  IF ws \notin DOMAIN PC THEN [games |-> G, pc |-> PC, out |-> <<>>]
  ELSE
    LET connection == PC[ws] IN
    IF connection.gameId \notin DOMAIN G
    THEN [games |-> G, pc |-> MapDelete(PC, ws), out |-> <<>>]
    ELSE
      LET game == G[connection.gameId]
          notices == disconnectNotices(game, RS, connection.playerId)
          active == activePlayers(game, RS, ws)
      IN IF Len(active) = 0
         THEN [games |-> MapDelete(G, connection.gameId),
               pc |-> MapDelete(PC, ws),
               out |-> notices \o broadcastGameRemoved(connection.gameId)]
         ELSE IF Len(active) = 1 /\ game.phase # WAITING
         THEN LET reset == resetToWaiting(game, active)
              IN [games |-> [G EXCEPT ![connection.gameId] = reset],
                  pc |-> MapDelete(
                           MapSet(PC, active[1].ws,
                                  [gameId |-> connection.gameId, playerId |-> 0]),
                           ws),
                  out |-> notices \o broadcastGameState(reset, RS)
                                  \o broadcastGameUpdate(reset)]
         ELSE [games |-> G, pc |-> MapDelete(PC, ws), out |-> notices]
\* Mutant of newPlayer: every player gets id 0.
newPlayer_IdZero(id, ws) ==
  [id |-> 0, ws |-> ws, board |-> createEmptyBoard,
   visibleEnemyBoard |-> createEmptyBoard, tanks |-> <<>>, tanksAlive |-> 0,
   ready |-> FALSE, name |-> ws]

\* joinGame: the Player object pushed for ws.
newPlayer(id, ws) ==
  [id |-> id, ws |-> ws, board |-> createEmptyBoard,
   visibleEnemyBoard |-> createEmptyBoard, tanks |-> <<>>, tanksAlive |-> 0,
   ready |-> FALSE, name |-> ws]
\* Mutant of addPlayer: the phase is left alone.
addPlayer_StaysWaiting(game, ws) ==
  [game EXCEPT !.players = Append(@, newPlayer(Len(game.players), ws))]

\* Mutant of addPlayer: the second join starts the battle at once.
addPlayer_SkipsPlacement(game, ws) ==
  LET pushed == [game EXCEPT !.players = Append(@, newPlayer(Len(game.players), ws))]
  IN IF Len(pushed.players) = 2 THEN [pushed EXCEPT !.phase = BATTLE] ELSE pushed

\* joinGame: the push of the new player and the start of placement.
addPlayer(game, ws) ==
  LET pushed == [game EXCEPT !.players = Append(@, newPlayer(Len(game.players), ws))]
  IN IF Len(pushed.players) = 2 THEN [pushed EXCEPT !.phase = PLACEMENT] ELSE pushed
\* Mutant of joinGame: the socket's earlier game is not left.
joinGame_StaysInOld(G, PC, RS, gameId0, ws) ==
  LET gameId == toUpperCase(gameId0) IN
  IF gameId \notin DOMAIN G
  THEN [success |-> FALSE, error |-> "Game not found", playerId |-> -1,
        games |-> G, pc |-> PC, out |-> <<>>]
  ELSE IF Len(G[gameId].players) >= 2
  THEN [success |-> FALSE, error |-> "Game is full", playerId |-> -1,
        games |-> G, pc |-> PC, out |-> <<>>]
  ELSE
    LET joined == addPlayer(G[gameId], ws)
    IN [success |-> TRUE, error |-> "", playerId |-> Len(G[gameId].players),
        games |-> [G EXCEPT ![gameId] = joined],
        pc |-> MapSet(PC, ws, [gameId |-> gameId, playerId |-> Len(G[gameId].players)]),
        out |-> broadcastGameState(joined, RS) \o broadcastGameUpdate(joined)]

\* joinGame.  `game` is the object fetched before leaveGame runs: leaveGame may
\* reset that object, or delete it from the registry, in which case the player
\* is pushed to an object the registry no longer holds.
joinGame(G, PC, RS, gameId0, ws) ==
  LET gameId == toUpperCase(gameId0) IN
  IF gameId \notin DOMAIN G
  THEN [success |-> FALSE, error |-> "Game not found", playerId |-> -1,
        games |-> G, pc |-> PC, out |-> <<>>]
  ELSE IF Len(G[gameId].players) >= 2
  THEN [success |-> FALSE, error |-> "Game is full", playerId |-> -1,
        games |-> G, pc |-> PC, out |-> <<>>]
  ELSE
    LET left == leaveGame(G, PC, RS, ws)
        stillLive == gameId \in DOMAIN left.games
        game == IF stillLive THEN left.games[gameId] ELSE G[gameId]
        joined == addPlayer(game, ws)
    IN [success |-> TRUE, error |-> "", playerId |-> Len(game.players),
        games |-> IF stillLive THEN [left.games EXCEPT ![gameId] = joined]
                  ELSE left.games,
        pc |-> MapSet(left.pc, ws,
                      [gameId |-> gameId, playerId |-> Len(game.players)]),
        out |-> left.out \o broadcastGameState(joined, RS)
                         \o broadcastGameUpdate(joined)]
\* Mutant of placeOnBoard: the tank is not pushed to player.tanks.
placeOnBoard_ForgetsList(player, x, y) ==
  [player EXCEPT !.board[<<x, y>>] = TANK, !.tanksAlive = @ + 1]

\* ------------------------------------------------------------------ combat
\* placeTank: the tank put on the player's board, list and count.
placeOnBoard(player, x, y) ==
  [player EXCEPT !.board[<<x, y>>] = TANK,
                 !.tanks = Append(@, <<x, y>>),
                 !.tanksAlive = @ + 1]

\* Mutant of markReady: ready from the first tank on.
markReady_Early(player) ==
  IF Len(player.tanks) >= 1 THEN [player EXCEPT !.ready = TRUE] ELSE player

\* placeTank: "check if player is ready".
markReady(player) ==
  IF Len(player.tanks) = TANKS_PER_PLAYER THEN [player EXCEPT !.ready = TRUE]
  ELSE player

\* placeTank: "check if both players are ready".
enterBattle(game) ==
  IF Len(game.players) = 2 /\ \A k \in 1 .. Len(game.players) : game.players[k].ready
  THEN [game EXCEPT !.phase = BATTLE]
  ELSE game

placeTank(G, gameId, playerId, x, y) ==
  IF gameId \notin DOMAIN G \/ G[gameId].phase # PLACEMENT
  THEN [ok |-> FALSE, games |-> G]
  ELSE
    LET game == G[gameId] IN
    IF playerId + 1 \notin DOMAIN game.players
       \/ Len(game.players[playerId + 1].tanks) >= TANKS_PER_PLAYER
    THEN [ok |-> FALSE, games |-> G]
    ELSE
      LET player == game.players[playerId + 1] IN
      IF ~isValidPosition(x, y) \/ player.board[<<x, y>>] # EMPTY
      THEN [ok |-> FALSE, games |-> G]
      ELSE
        LET placed == markReady(placeOnBoard(player, x, y))
            after == enterBattle([game EXCEPT !.players[playerId + 1] = placed])
        IN [ok |-> TRUE, games |-> [G EXCEPT ![gameId] = after]]

\* Mutant of switchTurn: actionTaken is left as it is.
switchTurn_KeepsGuard(game) ==
  [game EXCEPT !.currentTurn = 1 - game.currentTurn, !.moveCount = @ + 1]

\* Mutant of switchTurn: the turn stays with the player that acted.
switchTurn_SameOwner(game) ==
  [game EXCEPT !.moveCount = @ + 1, !.actionTaken = FALSE]

switchTurn(game) ==
  [game EXCEPT !.currentTurn = 1 - game.currentTurn,
               !.moveCount = @ + 1,
               !.actionTaken = FALSE]

\* Mutant of canAct: the turn is not compared with playerId.
canAct_IgnoresTurn(G, gameId, playerId) ==
  /\ gameId \in DOMAIN G
  /\ G[gameId].phase = BATTLE
  /\ ~G[gameId].actionTaken

\* The guard moveTank and bomb share: the game exists, is in battle, it is
\* playerId's turn and no action was taken yet.
canAct(G, gameId, playerId) ==
  /\ gameId \in DOMAIN G
  /\ G[gameId].phase = BATTLE
  /\ G[gameId].currentTurn = playerId
  /\ ~G[gameId].actionTaken

\* moveTank: the tank's entry in player.tanks, replaced at the first match.
updateTanks(tanks, fromX, fromY, toX, toY) ==
  IF \E k \in 1 .. Len(tanks) : tanks[k] = <<fromX, fromY>>
  THEN LET tankIndex == CHOOSE k \in 1 .. Len(tanks) :
                          /\ tanks[k] = <<fromX, fromY>>
                          /\ \A j \in 1 .. k - 1 : tanks[j] # <<fromX, fromY>>
       IN [tanks EXCEPT ![tankIndex] = <<toX, toY>>]
  ELSE tanks
\* Mutant of moveOnBoard: player.tanks keeps the old position.
moveOnBoard_KeepsPosition(player, fromX, fromY, toX, toY) ==
  [player EXCEPT !.board = [@ EXCEPT ![<<fromX, fromY>>] = EMPTY,
                                     ![<<toX, toY>>] = TANK]]

\* moveTank: the move on the player's board and list.
moveOnBoard(player, fromX, fromY, toX, toY) ==
  [player EXCEPT !.board = [@ EXCEPT ![<<fromX, fromY>>] = EMPTY,
                                     ![<<toX, toY>>] = TANK],
                 !.tanks = updateTanks(@, fromX, fromY, toX, toY)]

moveTank(G, gameId, playerId, fromX, fromY, toX, toY) ==
  IF ~canAct(G, gameId, playerId) THEN [ok |-> FALSE, games |-> G]
  ELSE
    LET game == G[gameId] IN
    IF playerId + 1 \notin DOMAIN game.players THEN [ok |-> FALSE, games |-> G]
    ELSE IF ~isValidPosition(fromX, fromY) \/ ~isValidPosition(toX, toY)
    THEN [ok |-> FALSE, games |-> G]
    ELSE
      LET player == game.players[playerId + 1] IN
      IF player.board[<<fromX, fromY>>] # TANK \/ player.board[<<toX, toY>>] # EMPTY
      THEN [ok |-> FALSE, games |-> G]
      ELSE
        LET moved == moveOnBoard(player, fromX, fromY, toX, toY)
            after == switchTurn([game EXCEPT !.players[playerId + 1] = moved,
                                             !.actionTaken = TRUE])
        IN [ok |-> TRUE, games |-> [G EXCEPT ![gameId] = after]]
\* Mutant of revealedCell: a tank in the area is shown as REVEALED.
revealedCell_HidesTanks(defenderCell) ==
  IF defenderCell = HIT THEN HIT
  ELSE IF defenderCell = MISS THEN MISS
  ELSE REVEALED

\* revealArea: what the attacker's visibleEnemyBoard shows for a defender cell.
revealedCell(defenderCell) ==
  IF defenderCell = TANK THEN TANK
  ELSE IF defenderCell = HIT THEN HIT
  ELSE IF defenderCell = MISS THEN MISS
  ELSE REVEALED

\* Mutant of inExplosion: the loops run one cell further.
inExplosion_Wider(centerX, centerY, x, y) ==
  /\ x - centerX >= -EXPLOSION_RADIUS - 1 /\ x - centerX <= EXPLOSION_RADIUS + 1
  /\ y - centerY >= -EXPLOSION_RADIUS - 1 /\ y - centerY <= EXPLOSION_RADIUS + 1

\* revealArea: the cells the two loops visit.
inExplosion(centerX, centerY, x, y) ==
  /\ x - centerX >= -EXPLOSION_RADIUS /\ x - centerX <= EXPLOSION_RADIUS
  /\ y - centerY >= -EXPLOSION_RADIUS /\ y - centerY <= EXPLOSION_RADIUS
\* Mutant of revealArea: a cell of the area the attacker already sees turns
\* REVEALED.
revealArea_Ages(visibleEnemyBoard, defenderBoard, centerX, centerY) ==
  [p \in Pos |->
     IF inExplosion(centerX, centerY, p[1], p[2])
     THEN IF visibleEnemyBoard[p] # EMPTY THEN REVEALED
          ELSE revealedCell(defenderBoard[p])
     ELSE visibleEnemyBoard[p]]

\* revealArea, as the new visibleEnemyBoard of the attacker.
revealArea(visibleEnemyBoard, defenderBoard, centerX, centerY) ==
  [p \in Pos |->
     IF inExplosion(centerX, centerY, p[1], p[2])
     THEN revealedCell(defenderBoard[p])
     ELSE visibleEnemyBoard[p]]
\* Mutant of alreadyBombed: every cell the attacker has seen counts as bombed.
alreadyBombed_AnySeen(attacker, x, y) ==
  attacker.visibleEnemyBoard[<<x, y>>] # EMPTY

\* Mutant of alreadyBombed: only HIT counts as bombed.
alreadyBombed_HitOnly(attacker, x, y) ==
  attacker.visibleEnemyBoard[<<x, y>>] = HIT

\* bomb: "check if already bombed".
alreadyBombed(attacker, x, y) ==
  attacker.visibleEnemyBoard[<<x, y>>] \in {HIT, MISS}

\* Mutant of hitTank: the hit forgets to lower tanksAlive.
hitTank_KeepsCount(defender, x, y) ==
  [defender EXCEPT !.board[<<x, y>>] = HIT,
                   !.tanks = SelectSeq(@, LAMBDA t : ~(t[1] = x /\ t[2] = y))]

\* bomb: the hit on the defender's board, count and list.
hitTank(defender, x, y) ==
  [defender EXCEPT !.board[<<x, y>>] = HIT,
                   !.tanksAlive = @ - 1,
                   !.tanks = SelectSeq(@, LAMBDA t : ~(t[1] = x /\ t[2] = y))]
\* Mutant of missTank: the defender's board is not marked.
missTank_NoMark(defender, x, y) == defender

\* bomb: the miss on the defender's board.
missTank(defender, x, y) ==
  IF defender.board[<<x, y>>] = EMPTY THEN [defender EXCEPT !.board[<<x, y>>] = MISS]
  ELSE defender
\* Mutant of gameWon: the winning bomb also passes the turn on.
gameWon_PassesTurn(game, playerId) ==
  [game EXCEPT !.phase = GAME_OVER, !.winner = playerId,
               !.currentTurn = 1 - @, !.moveCount = @ + 1]

\* Mutant of gameWon: the winner is the defender.
gameWon_WrongWinner(game, playerId) ==
  [game EXCEPT !.phase = GAME_OVER, !.winner = 1 - playerId]

\* bomb: "check win condition".
gameWon(game, playerId) ==
  [game EXCEPT !.phase = GAME_OVER, !.winner = playerId]

bomb(G, RS, gameId, playerId, x, y) ==
  IF ~canAct(G, gameId, playerId)
  THEN [result |-> "Not your turn", gameOver |-> FALSE, games |-> G, out |-> <<>>]
  ELSE
    LET game == G[gameId] IN
    IF playerId + 1 \notin DOMAIN game.players \/ 2 - playerId \notin DOMAIN game.players
    THEN [result |-> "Invalid players", gameOver |-> FALSE, games |-> G, out |-> <<>>]
    ELSE IF ~isValidPosition(x, y)
    THEN [result |-> "Out of bounds", gameOver |-> FALSE, games |-> G, out |-> <<>>]
    ELSE
      LET attacker == game.players[playerId + 1]
          defender == game.players[2 - playerId]
      IN
      IF alreadyBombed(attacker, x, y)
      THEN [result |-> "Already bombed", gameOver |-> FALSE, games |-> G, out |-> <<>>]
      ELSE
        LET isHit == defender.board[<<x, y>>] = TANK
            struck == IF isHit THEN hitTank(defender, x, y) ELSE missTank(defender, x, y)
        IN
        IF isHit /\ struck.tanksAlive = 0
        THEN LET over == gameWon([game EXCEPT !.players[2 - playerId] = struck], playerId)
             IN [result |-> "DIRECT HIT VICTORY", gameOver |-> TRUE,
                 games |-> [G EXCEPT ![gameId] = over],
                 out |-> broadcastGameUpdate(over)]
        ELSE LET shown == [attacker EXCEPT !.visibleEnemyBoard =
                             revealArea(@, struck.board, x, y)]
                 after == switchTurn(
                            [game EXCEPT !.players[2 - playerId] = struck,
                                         !.players[playerId + 1] = shown,
                                         !.actionTaken = TRUE])
             IN [result |-> IF isHit THEN "DIRECT HIT" ELSE "Miss",
                 gameOver |-> FALSE,
                 games |-> [G EXCEPT ![gameId] = after],
                 out |-> broadcastGameState(after, RS)]

\* ----------------------------------------------------------- handleMessage
\* Each case of handleMessage, as the registry it leaves and the messages it
\* sends.  `connection` is read before the case runs.
handleJoin(G, PC, RS, ws, gameId) ==
  LET created == IF toUpperCase(gameId) \notin DOMAIN G THEN createGame(G, gameId)
                 ELSE [ok |-> TRUE, error |-> "", gameId |-> "", games |-> G,
                       out |-> <<>>]
  IN IF ~created.ok
     THEN [games |-> G, pc |-> PC,
           out |-> <<[type |-> "joined", to |-> ws, success |-> FALSE,
                      gameId |-> "", playerId |-> -1, error |-> created.error]>>]
     ELSE LET joinResult == joinGame(created.games, PC, RS, toUpperCase(gameId), ws)
          IN [games |-> joinResult.games, pc |-> joinResult.pc,
              out |-> created.out \o joinResult.out \o
                      <<[type |-> "joined", to |-> ws,
                         success |-> joinResult.success,
                         gameId |-> IF joinResult.success THEN toUpperCase(gameId)
                                    ELSE "",
                         playerId |-> joinResult.playerId,
                         error |-> joinResult.error]>>]

handleCreateRoom(G, PC, ws, customRoomId) ==
  LET created == createGame(G, customRoomId)
  IN [games |-> created.games, pc |-> PC,
      out |-> created.out \o
              <<[type |-> "roomCreated", to |-> ws, success |-> created.ok,
                 gameId |-> created.gameId, error |-> created.error]>>]

handlePlaceTank(G, PC, RS, ws, x, y) ==
  IF ws \notin DOMAIN PC THEN [games |-> G, pc |-> PC, out |-> <<>>]
  ELSE LET connection == PC[ws]
           placed == placeTank(G, connection.gameId, connection.playerId, x, y)
       IN [games |-> placed.games, pc |-> PC,
           out |-> <<[type |-> "placeTankResult", to |-> ws, success |-> placed.ok]>>
                   \o (IF placed.ok /\ connection.gameId \in DOMAIN placed.games
                       THEN broadcastGameState(placed.games[connection.gameId], RS)
                       ELSE <<>>)]

handleMoveTank(G, PC, RS, ws, fromX, fromY, toX, toY) ==
  IF ws \notin DOMAIN PC THEN [games |-> G, pc |-> PC, out |-> <<>>]
  ELSE LET connection == PC[ws]
           moved == moveTank(G, connection.gameId, connection.playerId,
                             fromX, fromY, toX, toY)
       IN [games |-> moved.games, pc |-> PC,
           out |-> <<[type |-> "moveTankResult", to |-> ws, success |-> moved.ok]>>
                   \o (IF moved.ok /\ connection.gameId \in DOMAIN moved.games
                       THEN broadcastGameState(moved.games[connection.gameId], RS)
                       ELSE <<>>)]

\* The result string of an accepted bomb names its target; the model keeps
\* the target as x, y beside the kind of result.
handleBomb(G, PC, RS, ws, x, y) ==
  IF ws \notin DOMAIN PC THEN [games |-> G, pc |-> PC, out |-> <<>>]
  ELSE LET connection == PC[ws]
           bombResult == bomb(G, RS, connection.gameId, connection.playerId, x, y)
           accepted == bombResult.result \in {"DIRECT HIT", "DIRECT HIT VICTORY", "Miss"}
       IN [games |-> bombResult.games, pc |-> PC,
           out |-> bombResult.out \o
                   <<IF accepted
                     THEN [type |-> "bombResult", to |-> ws,
                           result |-> bombResult.result,
                           gameOver |-> bombResult.gameOver, x |-> x, y |-> y]
                     ELSE [type |-> "bombResult", to |-> ws,
                           result |-> bombResult.result,
                           gameOver |-> bombResult.gameOver]>>]

handleLeaveGame(G, PC, RS, ws) ==
  LET left == leaveGame(G, PC, RS, ws)
  IN [games |-> left.games, pc |-> left.pc,
      out |-> left.out \o <<[type |-> "leftGame", to |-> ws, success |-> TRUE]>>]
\* Mutant of hasActivePlayers: every player must be open, not some.
hasActivePlayers_Every(game, RS) ==
  \A k \in 1 .. Len(game.players) : RS[game.players[k].ws] = OPEN

\* cleanupOldGames.  `old` is the set of games whose age (Date.now() minus
\* createdAt) exceeds maxAge when the timer fires.
hasActivePlayers(game, RS) ==
  \E k \in 1 .. Len(game.players) : RS[game.players[k].ws] = OPEN
\* Mutant of swept: the age of a game is not looked at.
swept_IgnoresAge(G, RS, old) ==
  {gameId \in DOMAIN G : ~hasActivePlayers(G[gameId], RS)}

swept(G, RS, old) ==
  {gameId \in DOMAIN G : gameId \in old \/ ~hasActivePlayers(G[gameId], RS)}

RECURSIVE removalNotices(_)
removalNotices(ids) ==
  IF ids = {} THEN <<>>
  ELSE LET gameId == CHOOSE g \in ids : TRUE
       IN broadcastGameRemoved(gameId) \o removalNotices(ids \ {gameId})

cleanupOldGames(G, RS, old) ==
  [games |-> [gameId \in DOMAIN G \ swept(G, RS, old) |-> G[gameId]],
   out |-> removalNotices(swept(G, RS, old))]

\* ----------------------------------------------------------------- actions
EmptyMap == [j \in {} |-> j]

Init ==
  /\ games = EmptyMap
  /\ playerConnections = EmptyMap
  /\ allConnections = {}
  /\ readyState = [w \in Conns |-> GONE]
  /\ history = EmptyMap

\* The observer.  For every live game, history keeps the playerId of the last
\* accepted moveTank / bomb of that game (NoActor: none yet) and whether
\* leaveGame has reset the game to waiting since.  `actedIn` is the game a
\* moveTank / bomb was accepted in by `actor` in this step ("": none).
NoActor == -1

Observe(actedIn, actor) ==
  history' =
    [g \in DOMAIN games' |->
       IF g \notin DOMAIN games THEN [lastActor |-> NoActor, resetSince |-> FALSE]
       ELSE IF g = actedIn THEN [lastActor |-> actor, resetSince |-> FALSE]
       ELSE IF games[g].phase # WAITING /\ games'[g].phase = WAITING
       THEN [history[g] EXCEPT !.resetSince = TRUE]
       ELSE history[g]]

\* A handler's result becomes the next state.
Commit(r) ==
  /\ games' = r.games
  /\ playerConnections' = r.pc
  /\ UNCHANGED <<allConnections, readyState>>

\* The reply of handleMoveTank / handleBomb says the intent was accepted.
Accepted(r) ==
  \E i \in 1 .. Len(r.out) :
    \/ r.out[i].type = "moveTankResult" /\ r.out[i].success
    \/ r.out[i].type = "bombResult"
       /\ r.out[i].result \in {"DIRECT HIT", "DIRECT HIT VICTORY", "Miss"}

\* A socket object is new: nothing holds a socket that connects.
Unreferenced(w) ==
  /\ w \notin DOMAIN playerConnections
  /\ \A g \in DOMAIN games :
       \A k \in 1 .. Len(games[g].players) : games[g].players[k].ws # w

\* wss.on('connection'): addConnection.
Connect(w) ==
  /\ readyState[w] = GONE
  /\ Unreferenced(w)
  /\ readyState' = [readyState EXCEPT ![w] = OPEN]
  /\ allConnections' = allConnections \cup {w}
  /\ UNCHANGED <<games, playerConnections, history>>

\* The socket stops being OPEN; its 'close' event is still to come.
BeginClose(w) ==
  /\ readyState[w] = OPEN
  /\ readyState' = [readyState EXCEPT ![w] = CLOSING]
  /\ UNCHANGED <<games, playerConnections, allConnections, history>>

\* ws.on('close'): removePlayer = leaveGame, then removeConnection.
Close(w) ==
  /\ readyState[w] = CLOSING
  /\ LET left == leaveGame(games, playerConnections,
                           [readyState EXCEPT ![w] = GONE], w)
     IN games' = left.games /\ playerConnections' = left.pc
  /\ allConnections' = allConnections \ {w}
  /\ readyState' = [readyState EXCEPT ![w] = GONE]
  /\ Observe("", NoActor)

Join(w, gameId) ==
  /\ readyState[w] = OPEN
  /\ Commit(handleJoin(games, playerConnections, readyState, w, gameId))
  /\ Observe("", NoActor)

CreateRoom(w, customRoomId) ==
  /\ readyState[w] = OPEN
  /\ Commit(handleCreateRoom(games, playerConnections, w, customRoomId))
  /\ Observe("", NoActor)

PlaceTank(w, x, y) ==
  /\ readyState[w] = OPEN
  /\ Commit(handlePlaceTank(games, playerConnections, readyState, w, x, y))
  /\ Observe("", NoActor)

\* Clients send no move / bomb to a game whose moveCount reached MaxMoves.
MovesLeft(w) ==
  (w \in DOMAIN playerConnections /\ playerConnections[w].gameId \in DOMAIN games)
    => games[playerConnections[w].gameId].moveCount < MaxMoves

MoveTank(w, fromX, fromY, toX, toY) ==
  /\ readyState[w] = OPEN
  /\ MovesLeft(w)
  /\ LET r == handleMoveTank(games, playerConnections, readyState, w,
                             fromX, fromY, toX, toY)
     IN /\ Commit(r)
        /\ IF Accepted(r)
           THEN Observe(playerConnections[w].gameId, playerConnections[w].playerId)
           ELSE Observe("", NoActor)

Bomb(w, x, y) ==
  /\ readyState[w] = OPEN
  /\ MovesLeft(w)
  /\ LET r == handleBomb(games, playerConnections, readyState, w, x, y)
     IN /\ Commit(r)
        /\ IF Accepted(r)
           THEN Observe(playerConnections[w].gameId, playerConnections[w].playerId)
           ELSE Observe("", NoActor)

LeaveGame(w) ==
  /\ readyState[w] = OPEN
  /\ Commit(handleLeaveGame(games, playerConnections, readyState, w))
  /\ Observe("", NoActor)

\* The cleanup timer fires.
Sweep(old) ==
  /\ games' = cleanupOldGames(games, readyState, old).games
  /\ UNCHANGED <<playerConnections, allConnections, readyState>>
  /\ Observe("", NoActor)

Next ==
  \/ \E w \in Conns : Connect(w)
  \/ \E w \in Conns : BeginClose(w)
  \/ \E w \in Conns : Close(w)
  \/ \E w \in Conns, gameId \in RoomInputs : Join(w, gameId)
  \/ \E w \in Conns, gameId \in RoomInputs : CreateRoom(w, gameId)
  \/ \E w \in Conns, c \in PlaceInputs : PlaceTank(w, c[1], c[2])
  \/ \E w \in Conns, f \in CoordInputs, t \in CoordInputs :
       MoveTank(w, f[1], f[2], t[1], t[2])
  \/ \E w \in Conns, c \in CoordInputs : Bomb(w, c[1], c[2])
  \/ \E w \in Conns : LeaveGame(w)
  \/ \E old \in SUBSET (DOMAIN games) : Sweep(old)

Spec == Init /\ [][Next]_vars

\* The lobby alone, with two room ids in use: connections, joins, leaves and
\* the cleanup timer, without placement and battle.
LobbyRooms == {"room", "side"}

NextLobby ==
  \/ \E w \in Conns : Connect(w)
  \/ \E w \in Conns : BeginClose(w)
  \/ \E w \in Conns : Close(w)
  \/ \E w \in Conns, gameId \in LobbyRooms : Join(w, gameId)
  \/ \E w \in Conns, gameId \in LobbyRooms : CreateRoom(w, gameId)
  \/ \E w \in Conns : LeaveGame(w)
  \/ \E old \in SUBSET (DOMAIN games) : Sweep(old)

SpecLobby == Init /\ [][NextLobby]_vars

\* setInterval keeps the cleanup timer firing and createdAt never changes, so
\* every game that lasts is, at some firing, older than maxAge: the timer
\* fires again and again with every live game in `old`.
SweepOld == games # EmptyMap /\ Sweep(DOMAIN games)

SpecLobbyFair == SpecLobby /\ WF_vars(SweepOld)

\* One room id and a third socket: a socket can be left bound to a room id
\* that two other sockets play in.
Sockets == Conns \cup {"w3"}

InitStale ==
  /\ games = EmptyMap
  /\ playerConnections = EmptyMap
  /\ allConnections = {}
  /\ readyState = [w \in Sockets |-> GONE]
  /\ history = EmptyMap

NextStale ==
  \/ \E w \in Sockets : Connect(w)
  \/ \E w \in Sockets : Join(w, "room")
  \/ \E w \in Sockets, c \in PlaceInputs : PlaceTank(w, c[1], c[2])
  \/ \E w \in Sockets, f \in CoordInputs, t \in CoordInputs :
       MoveTank(w, f[1], f[2], t[1], t[2])
  \/ \E w \in Sockets, c \in CoordInputs : Bomb(w, c[1], c[2])
  \/ \E w \in Sockets : LeaveGame(w)

SpecStale == InitStale /\ [][NextStale]_vars

\* =================================================================== claims
\* What the claims speak of.
TanksOn(board) == Cardinality({p \in Pos : board[p] = TANK})

Bound(w) ==
  /\ readyState[w] = OPEN
  /\ w \in DOMAIN playerConnections
  /\ playerConnections[w].gameId \in DOMAIN games

GameOf(w) == games[playerConnections[w].gameId]

\* The reply of handleBomb to the socket that sent the intent: its last message.
Reply(r) == r.out[Len(r.out)]

AnyCoord == Pos \cup CoordInputs

\* ----------------------------------------------------------------------- C1
\* C1: in every live game, every player's tanksAlive equals the number of TANK
\* cells on that player's own board.
C1_AliveMatchesBoard ==
  \A g \in DOMAIN games :
    \A k \in 1 .. Len(games[g].players) :
      games[g].players[k].tanksAlive = TanksOn(games[g].players[k].board)

\* A player that placed its tanks and then lost one to a hit.
C1_Witness ==
  \E g \in DOMAIN games :
    \E k \in 1 .. Len(games[g].players) :
      /\ games[g].players[k].tanksAlive = TANKS_PER_PLAYER - 1
      /\ \E p \in Pos : games[g].players[k].board[p] = HIT

\* ----------------------------------------------------------------------- C2
\* C2 as stated: an accepted moveTank / bomb is never made by the playerId that
\* made the last accepted moveTank / bomb of the same game.
C2_Original ==
  \A w \in Conns :
    (Bound(w) /\ MovesLeft(w)) =>
      \A c \in CoordInputs :
        /\ Accepted(handleBomb(games, playerConnections, readyState, w, c[1], c[2]))
             => history[playerConnections[w].gameId].lastActor
                  # playerConnections[w].playerId
        /\ \A t \in CoordInputs :
             Accepted(handleMoveTank(games, playerConnections, readyState, w,
                                     c[1], c[2], t[1], t[2]))
               => history[playerConnections[w].gameId].lastActor
                    # playerConnections[w].playerId

\* C2 amended: ... unless leaveGame has reset the game to waiting since that
\* last accepted moveTank / bomb.
C2_AlternatesUntilReset ==
  \A w \in Conns :
    (Bound(w) /\ MovesLeft(w)) =>
      LET h == history[playerConnections[w].gameId]
          mayAct == h.lastActor # playerConnections[w].playerId \/ h.resetSince
      IN \A c \in CoordInputs :
           /\ Accepted(handleBomb(games, playerConnections, readyState, w, c[1], c[2]))
                => mayAct
           /\ \A t \in CoordInputs :
                Accepted(handleMoveTank(games, playerConnections, readyState, w,
                                        c[1], c[2], t[1], t[2]))
                  => mayAct

\* Player 0 acted, then player 1 acted, with no reset since.
C2_Witness ==
  \E g \in DOMAIN games :
    /\ games[g].phase = BATTLE
    /\ games[g].moveCount >= 2
    /\ history[g].lastActor = 1
    /\ ~history[g].resetSince

\* ----------------------------------------------------------------------- C3
\* C3: a bomb on an in-bounds cell sent by the player whose turn it is, in
\* battle, is answered "Already bombed" exactly when that player's
\* visibleEnemyBoard shows HIT or MISS there, and then nothing changes and
\* nothing else is sent.
C3_AlreadyBombedIff ==
  \A w \in Conns :
    (/\ Bound(w)
     /\ GameOf(w).phase = BATTLE
     /\ GameOf(w).currentTurn = playerConnections[w].playerId) =>
      \A p \in Pos :
        LET r == handleBomb(games, playerConnections, readyState, w, p[1], p[2])
            seen == GameOf(w).players[playerConnections[w].playerId + 1]
                      .visibleEnemyBoard[p]
        IN /\ Reply(r).result = "Already bombed" <=> seen \in {HIT, MISS}
           /\ Reply(r).result = "Already bombed" =>
                /\ r.games = games
                /\ r.pc = playerConnections
                /\ Len(r.out) = 1

\* The player whose turn it is bombs a cell its board shows as MISS, and
\* another it shows as HIT.
C3_Witness ==
  \E w \in Conns :
    /\ Bound(w)
    /\ GameOf(w).phase = BATTLE
    /\ GameOf(w).currentTurn = playerConnections[w].playerId
    /\ \E p, q \in Pos :
         /\ GameOf(w).players[playerConnections[w].playerId + 1]
              .visibleEnemyBoard[p] = MISS
         /\ GameOf(w).players[playerConnections[w].playerId + 1]
              .visibleEnemyBoard[q] = HIT
         /\ Reply(handleBomb(games, playerConnections, readyState, w, p[1], p[2]))
              .result = "Already bombed"
         /\ Reply(handleBomb(games, playerConnections, readyState, w, q[1], q[2]))
              .result = "Already bombed"

\* ----------------------------------------------------------------------- C4
\* The player with one tank of its own board moved from p to q.
Relocated(player, p, q) ==
  [player EXCEPT
     !.board = [c \in Pos |-> IF c = p THEN player.board[q]
                              ELSE IF c = q THEN player.board[p]
                              ELSE player.board[c]],
     !.tanks = [k \in 1 .. Len(player.tanks) |->
                  IF player.tanks[k] = p THEN q ELSE player.tanks[k]]]

\* The gameState messages broadcastGameState sends to socket w.
ViewsTo(game, w) ==
  SelectSeq(broadcastGameState(game, readyState), LAMBDA m : m.to = w)

\* C4: the gameState sent to a player of a two-player game is the same
\* whatever cells the opponent's tanks stand on: moving any opponent tank to
\* any other cell of the opponent's own board changes nothing in it.
C4_ViewHidesEnemyBoard ==
  \A g \in DOMAIN games :
    Len(games[g].players) = 2 =>
      \A k \in 1 .. 2 :
        \A p, q \in Pos :
          (games[g].players[3 - k].board[p] = TANK
             /\ games[g].players[3 - k].board[q] # TANK) =>
            ViewsTo([games[g] EXCEPT !.players[3 - k] = Relocated(@, p, q)],
                    games[g].players[k].ws)
              = ViewsTo(games[g], games[g].players[k].ws)

\* A battle in which a gameState goes to a player whose opponent has tanks
\* left to move, after that player has seen one of them.
C4_Witness ==
  \E g \in DOMAIN games :
    /\ games[g].phase = BATTLE
    /\ games[g].moveCount > 0
    /\ \E k \in 1 .. 2 :
         /\ Len(ViewsTo(games[g], games[g].players[k].ws)) = 1
         /\ \E p \in Pos : games[g].players[3 - k].board[p] = TANK
         /\ \E p \in Pos : games[g].players[k].visibleEnemyBoard[p] = TANK

\* ----------------------------------------------------------------------- C5
\* The player record socket w holds in game g of registry G.
Holds(G, g, w) ==
  g \in DOMAIN G /\ \E k \in 1 .. Len(G[g].players) : G[g].players[k].ws = w

PlayerOf(G, g, w) ==
  G[g].players[CHOOSE k \in 1 .. Len(G[g].players) : G[g].players[k].ws = w]

\* Chebyshev distance of two cells.
Abs(n) == IF n < 0 THEN -n ELSE n

Chebyshev(p, q) ==
  IF Abs(p[1] - q[1]) > Abs(p[2] - q[2]) THEN Abs(p[1] - q[1]) ELSE Abs(p[2] - q[2])

\* This step is an accepted bomb at cell c, sent on behalf of the slot socket
\* w holds in game g.
BombedBy(g, w, c) ==
  \E a \in Conns :
    /\ Bound(a)
    /\ playerConnections[a].gameId = g
    /\ playerConnections[a].playerId + 1 \in DOMAIN games[g].players
    /\ games[g].players[playerConnections[a].playerId + 1].ws = w
    /\ Accepted(handleBomb(games, playerConnections, readyState, a, c[1], c[2]))
    /\ games' = handleBomb(games, playerConnections, readyState, a, c[1], c[2]).games

\* C5: a player joins with an all-EMPTY visibleEnemyBoard, and a cell of a
\* player's visibleEnemyBoard changes only in a step that is an accepted bomb
\* of that player's slot at a cell within EXPLOSION_RADIUS (Chebyshev) of it.
C5_OnlyOwnBombsReveal ==
  [][\A g \in DOMAIN games', w \in Conns :
       Holds(games', g, w) =>
         IF Holds(games, g, w)
         THEN \A p \in Pos :
                PlayerOf(games', g, w).visibleEnemyBoard[p]
                    # PlayerOf(games, g, w).visibleEnemyBoard[p]
                  => \E c \in Pos :
                       BombedBy(g, w, c) /\ Chebyshev(c, p) <= EXPLOSION_RADIUS
         ELSE \A p \in Pos : PlayerOf(games', g, w).visibleEnemyBoard[p] = EMPTY
    ]_vars

\* A player that bombed <<0, 0>> sees the cells around it and not <<2, 2>>.
C5_Witness ==
  \E g \in DOMAIN games :
    \E k \in 1 .. Len(games[g].players) :
      /\ games[g].players[k].visibleEnemyBoard[<<0, 0>>] \in {HIT, MISS}
      /\ games[g].players[k].visibleEnemyBoard[<<1, 1>>] # EMPTY
      /\ games[g].players[k].visibleEnemyBoard[<<2, 2>>] = EMPTY
      /\ games[g].players[k].visibleEnemyBoard[<<2, 0>>] = EMPTY

\* ----------------------------------------------------------------------- C6
\* C6: a game is created in waiting, and its phase changes only from waiting
\* to placement, placement to battle, battle to gameover, or from any other
\* phase back to waiting in a step that takes it from two players to one
\* player whose socket is OPEN.
C6_PhaseOrder ==
  [][\A g \in DOMAIN games' :
       IF g \notin DOMAIN games THEN games'[g].phase = WAITING
       ELSE games'[g].phase # games[g].phase =>
              \/ <<games[g].phase, games'[g].phase>> \in
                   {<<WAITING, PLACEMENT>>, <<PLACEMENT, BATTLE>>,
                    <<BATTLE, GAME_OVER>>}
              \/ /\ games'[g].phase = WAITING
                 /\ Len(games[g].players) = 2
                 /\ Len(games'[g].players) = 1
                 /\ readyState'[games'[g].players[1].ws] = OPEN
                 /\ Holds(games, g, games'[g].players[1].ws)
    ]_vars

\* A game that went back to waiting from gameover and reached battle again.
C6_Witness ==
  \E g \in DOMAIN games :
    /\ games[g].phase = BATTLE
    /\ games[g].winner # NoWinner

\* ----------------------------------------------------------------------- C7
\* The reply of handlePlaceTank says the tank was placed.
Placed(r) ==
  \E i \in 1 .. Len(r.out) : r.out[i].type = "placeTankResult" /\ r.out[i].success

\* C7: a placeTank is accepted only in placement, and there it is accepted
\* from either player of the game whatever currentTurn is; a moveTank or bomb
\* is accepted only in battle and only for the playerId equal to currentTurn.
C7_IntentsInTheirPhase ==
  \A w \in Conns :
    Bound(w) =>
      LET game == GameOf(w)
          playerId == playerConnections[w].playerId
          onTurn == game.phase = BATTLE /\ game.currentTurn = playerId
      IN \A c \in AnyCoord :
           /\ Placed(handlePlaceTank(games, playerConnections, readyState, w, c[1], c[2]))
                => game.phase = PLACEMENT
           /\ (/\ game.phase = PLACEMENT
               /\ playerId + 1 \in DOMAIN game.players
               /\ Len(game.players[playerId + 1].tanks) < TANKS_PER_PLAYER
               /\ c \in Pos
               /\ game.players[playerId + 1].board[c] = EMPTY)
                => Placed(handlePlaceTank(games, playerConnections, readyState, w,
                                          c[1], c[2]))
           /\ Accepted(handleBomb(games, playerConnections, readyState, w, c[1], c[2]))
                => onTurn
           /\ \A t \in AnyCoord :
                Accepted(handleMoveTank(games, playerConnections, readyState, w,
                                        c[1], c[2], t[1], t[2]))
                  => onTurn

\* A battle both players placed their tanks for, in which the player on turn
\* may bomb and the other may not.
C7_Witness ==
  \E w, v \in Conns :
    /\ Bound(w) /\ Bound(v)
    /\ playerConnections[w].gameId = playerConnections[v].gameId
    /\ GameOf(w).phase = BATTLE
    /\ \A k \in 1 .. 2 : Len(GameOf(w).players[k].tanks) = TANKS_PER_PLAYER
    /\ GameOf(w).currentTurn = playerConnections[w].playerId
    /\ GameOf(w).currentTurn # playerConnections[v].playerId
    /\ Accepted(handleBomb(games, playerConnections, readyState, w, 2, 2))
    /\ ~Accepted(handleBomb(games, playerConnections, readyState, v, 2, 2))

\* ----------------------------------------------------------------------- C8
\* This step is a placeTank at cell c for the slot socket w holds in game g.
PlacedBy(g, w, c) ==
  \E a \in Conns :
    /\ Bound(a)
    /\ playerConnections[a].gameId = g
    /\ playerConnections[a].playerId + 1 \in DOMAIN games[g].players
    /\ games[g].players[playerConnections[a].playerId + 1].ws = w
    /\ Placed(handlePlaceTank(games, playerConnections, readyState, a, c[1], c[2]))
    /\ games' = handlePlaceTank(games, playerConnections, readyState, a, c[1], c[2]).games

\* C8: a player joins not ready and becomes ready only in a placeTank step of
\* its own slot that takes its tanks from TANKS_PER_PLAYER - 1 to
\* TANKS_PER_PLAYER; a game's phase becomes battle only in a step after which
\* it has two players, both ready.
C8_ReadyThenBattle ==
  [][\A g \in DOMAIN games' :
       /\ \A w \in Conns :
            (Holds(games', g, w) /\ PlayerOf(games', g, w).ready) =>
              \/ Holds(games, g, w) /\ PlayerOf(games, g, w).ready
              \/ /\ Holds(games, g, w)
                 /\ Len(PlayerOf(games, g, w).tanks) = TANKS_PER_PLAYER - 1
                 /\ Len(PlayerOf(games', g, w).tanks) = TANKS_PER_PLAYER
                 /\ \E c \in Pos : PlacedBy(g, w, c)
       /\ (games'[g].phase = BATTLE /\ (g \notin DOMAIN games \/ games[g].phase # BATTLE))
            => /\ Len(games'[g].players) = 2
               /\ \A k \in 1 .. 2 : games'[g].players[k].ready
    ]_vars

\* A battle of two ready players, each with TANKS_PER_PLAYER tanks placed.
C8_Witness ==
  \E g \in DOMAIN games :
    /\ games[g].phase = BATTLE
    /\ games[g].moveCount = 0
    /\ Len(games[g].players) = 2
    /\ \A k \in 1 .. 2 :
         /\ games[g].players[k].ready
         /\ games[g].players[k].tanksAlive = TANKS_PER_PLAYER

\* ----------------------------------------------------------------------- C9
\* Socket w is bound to the playerId whose moveTank / bomb was the last one
\* accepted in its game, which is in battle and was not reset since.
JustActed(w) ==
  /\ Bound(w)
  /\ GameOf(w).phase = BATTLE
  /\ history[playerConnections[w].gameId].lastActor = playerConnections[w].playerId
  /\ ~history[playerConnections[w].gameId].resetSince

\* C9 as stated: the next bomb of the player that just acted is answered
\* "Action already taken" and changes nothing.
C9_Original ==
  \A w \in Conns :
    JustActed(w) =>
      \A p \in Pos :
        LET r == handleBomb(games, playerConnections, readyState, w, p[1], p[2])
        IN /\ Reply(r).result = "Action already taken"
           /\ r.games = games
           /\ r.pc = playerConnections

\* C9, amended: the next bomb of the player that just acted is answered
\* "Not your turn", the one answer bomb has for a wrong phase, a wrong turn
\* and a set guard, and changes nothing; actionTaken is set and cleared inside
\* one accepted action, so it is false in every state a handler starts from.
C9_SecondBombNotYourTurn ==
  /\ \A g \in DOMAIN games : ~games[g].actionTaken
  /\ \A w \in Conns :
       JustActed(w) =>
         \A p \in Pos :
           LET r == handleBomb(games, playerConnections, readyState, w, p[1], p[2])
           IN /\ Reply(r).result = "Not your turn"
              /\ Len(r.out) = 1
              /\ r.games = games
              /\ r.pc = playerConnections

\* The player with playerId 0 just bombed and is still connected; so is its
\* opponent, whose turn it is.
C9_Witness ==
  \E w \in Conns :
    /\ JustActed(w)
    /\ playerConnections[w].playerId = 0
    /\ GameOf(w).currentTurn = 1
    /\ GameOf(w).moveCount = 1
    /\ \E p \in Pos : GameOf(w).players[1].visibleEnemyBoard[p] \in {HIT, MISS}

\* ---------------------------------------------------------------------- C10
\* C10: an accepted bomb that takes the defender's tanksAlive to zero leaves
\* the game in gameover with the attacker's playerId as winner; in gameover no
\* moveTank or bomb is accepted, and as long as the game stays in gameover its
\* players' boards and tanksAlive, currentTurn, moveCount and winner stay as
\* they are.
C10_VictoryIsFinal ==
  /\ [](\A w \in Conns :
          Bound(w) =>
            LET g == playerConnections[w].gameId
                playerId == playerConnections[w].playerId
            IN \A c \in AnyCoord :
                 LET r == handleBomb(games, playerConnections, readyState, w, c[1], c[2])
                 IN /\ (/\ Accepted(r)
                        /\ games[g].players[2 - playerId].tanksAlive > 0
                        /\ r.games[g].players[2 - playerId].tanksAlive = 0)
                         => /\ r.games[g].phase = GAME_OVER
                            /\ r.games[g].winner = playerId
                    /\ games[g].phase = GAME_OVER =>
                         /\ ~Accepted(r)
                         /\ \A t \in AnyCoord :
                              ~Accepted(handleMoveTank(games, playerConnections,
                                                       readyState, w,
                                                       c[1], c[2], t[1], t[2])))
  /\ [][\A g \in DOMAIN games \cap DOMAIN games' :
          (games[g].phase = GAME_OVER /\ games'[g].phase = GAME_OVER) =>
            /\ Len(games'[g].players) = Len(games[g].players)
            /\ \A k \in 1 .. Len(games[g].players) :
                 /\ games'[g].players[k].board = games[g].players[k].board
                 /\ games'[g].players[k].visibleEnemyBoard
                      = games[g].players[k].visibleEnemyBoard
                 /\ games'[g].players[k].tanksAlive = games[g].players[k].tanksAlive
            /\ games'[g].currentTurn = games[g].currentTurn
            /\ games'[g].moveCount = games[g].moveCount
            /\ games'[g].winner = games[g].winner
       ]_vars

\* A game won by the player with playerId 0, both players still connected.
C10_Witness ==
  \E g \in DOMAIN games :
    /\ games[g].phase = GAME_OVER
    /\ games[g].winner = 0
    /\ games[g].players[2].tanksAlive = 0
    /\ games[g].players[1].tanksAlive > 0
    /\ \A k \in 1 .. 2 : Bound(games[g].players[k].ws)

\* ---------------------------------------------------------------------- C11
\* C11 as stated: in the state after a step that takes a two-player battle
\* back to waiting, the remaining player has id 0 and its placeTank on any
\* in-bounds EMPTY cell of its board succeeds.
C11_Original ==
  [][\A g \in DOMAIN games \cap DOMAIN games' :
       (/\ games[g].phase = BATTLE
        /\ Len(games[g].players) = 2
        /\ games'[g].phase = WAITING) =>
         LET survivor == games'[g].players[1]
         IN /\ survivor.id = 0
            /\ \A c \in Pos :
                 survivor.board[c] = EMPTY =>
                   Placed(handlePlaceTank(games', playerConnections', readyState',
                                          survivor.ws, c[1], c[2]))
    ]_vars

\* ---------------------------------------------------------------------- C12
\* The positions of game.players whose socket is OPEN and is not w.
ConnectedBut(game, w) ==
  {k \in 1 .. Len(game.players) :
     readyState[game.players[k].ws] = OPEN /\ game.players[k].ws # w}

\* C12: leaveGame for a socket bound to a live game that is not in waiting
\* and has exactly one other player with an OPEN socket sets the phase to
\* waiting, keeps that player alone with id 0, sets currentTurn to 0, binds
\* that player's socket to playerId 0 of the game and unbinds the leaver.
C12_LeaveResets ==
  \A w \in DOMAIN playerConnections :
    LET g == playerConnections[w].gameId
        left == leaveGame(games, playerConnections, readyState, w)
    IN (/\ g \in DOMAIN games
        /\ games[g].phase # WAITING
        /\ Cardinality(ConnectedBut(games[g], w)) = 1) =>
         LET k == CHOOSE k \in ConnectedBut(games[g], w) : TRUE
             survivor == games[g].players[k]
         IN /\ g \in DOMAIN left.games
            /\ left.games[g].phase = WAITING
            /\ left.games[g].players = <<[survivor EXCEPT !.id = 0]>>
            /\ left.games[g].currentTurn = 0
            /\ left.pc = [v \in DOMAIN playerConnections \ {w} |->
                            IF v = survivor.ws THEN [gameId |-> g, playerId |-> 0]
                            ELSE playerConnections[v]]

\* A battle on the turn of playerId 1 in which the player with playerId 0 is
\* about to leave; the survivor will be renumbered and the turn reset.
C12_Witness ==
  \E w \in Conns :
    /\ Bound(w)
    /\ GameOf(w).phase = BATTLE
    /\ GameOf(w).currentTurn = 1
    /\ playerConnections[w].playerId = 0
    /\ Len(GameOf(w).players) = 2
    /\ GameOf(w).players[1].ws = w
    /\ ConnectedBut(GameOf(w), w) = {2}
    /\ leaveGame(games, playerConnections, readyState, w)
         .games[playerConnections[w].gameId].players[1].id = 0

\* ---------------------------------------------------------------------- C13
\* The messages of type t about game g in the sequence out.
About(out, t, g) ==
  SelectSeq(out, LAMBDA m : m.type = t /\ m.gameId = g)

\* C13: leaveGame for a socket bound to a live game in which no other player
\* has an OPEN socket deletes the game, sends one gameRemoved to all and
\* unbinds the socket; leaveGame for an unbound socket changes nothing and
\* sends nothing; and a second leaveGame for the same socket, right after the
\* first, changes nothing and sends nothing.
C13_LastLeaveRemoves ==
  \A w \in Conns :
    LET left == leaveGame(games, playerConnections, readyState, w)
        again == leaveGame(left.games, left.pc, readyState, w)
    IN /\ w \notin DOMAIN playerConnections =>
            /\ left.games = games
            /\ left.pc = playerConnections
            /\ left.out = <<>>
       /\ (/\ w \in DOMAIN playerConnections
           /\ playerConnections[w].gameId \in DOMAIN games
           /\ ConnectedBut(games[playerConnections[w].gameId], w) = {}) =>
            /\ playerConnections[w].gameId \notin DOMAIN left.games
            /\ \A g \in DOMAIN left.games : left.games[g] = games[g]
            /\ Len(About(left.out, "gameRemoved", playerConnections[w].gameId)) = 1
            /\ w \notin DOMAIN left.pc
       /\ again.games = left.games
       /\ again.pc = left.pc
       /\ again.out = <<>>

\* The only player of a game is about to leave it while another socket is
\* connected to hear of the removal.
C13_Witness ==
  \E w, v \in Conns :
    /\ w # v
    /\ readyState[v] = OPEN
    /\ Bound(w)
    /\ Len(GameOf(w).players) = 1
    /\ GameOf(w).players[1].ws = w
    /\ leaveGame(games, playerConnections, readyState, w).games = EmptyMap
    /\ v \notin DOMAIN playerConnections

\* ---------------------------------------------------------------------- C14
\* C14: a live game has at most two players, and the id of each is its
\* position in game.players (0 for the first, 1 for the second).
C14_SlotsNumbered ==
  \A g \in DOMAIN games :
    /\ Len(games[g].players) <= 2
    /\ \A k \in 1 .. Len(games[g].players) : games[g].players[k].id = k - 1

\* A game reset to waiting whose one player, again with id 0, has bombed as
\* the second player of the battle before.
C14_Witness ==
  \E g \in DOMAIN games :
    /\ history[g].resetSince
    /\ games[g].phase = WAITING
    /\ Len(games[g].players) = 1
    /\ games[g].players[1].id = 0
    /\ games[g].moveCount = 2
    /\ games[g].currentTurn = 0
    /\ \E p \in Pos : games[g].players[1].visibleEnemyBoard[p] \in {HIT, MISS}
    /\ \A p \in Pos : games[g].players[1].board[p] \in {EMPTY, TANK}

\* ---------------------------------------------------------------------- C15
\* The reply of handleJoin.
Joined(r) == r.out[Len(r.out)]

\* C15: a live game is in waiting exactly when it has fewer than two players;
\* a join that succeeds on a game that stays live appends the joiner with id
\* equal to the number of players before it, and leaves the phase waiting
\* for the first player and placement for the second.
C15_WaitingUntilFull ==
  /\ \A g \in DOMAIN games :
       games[g].phase = WAITING <=> Len(games[g].players) < 2
  /\ \A w \in Conns, gameId \in RoomInputs :
       LET r == handleJoin(games, playerConnections, readyState, w, gameId)
           g == toUpperCase(gameId)
           n == IF g \in DOMAIN games THEN Len(games[g].players) ELSE 0
       IN (readyState[w] = OPEN /\ Joined(r).success /\ g \in DOMAIN r.games) =>
            /\ Len(r.games[g].players) = n + 1
            /\ r.games[g].players[n + 1].ws = w
            /\ r.games[g].players[n + 1].id = n
            /\ Joined(r).playerId = n
            /\ r.pc[w] = [gameId |-> g, playerId |-> n]
            /\ n = 0 => r.games[g].phase = WAITING
            /\ n = 1 => games[g].phase = WAITING /\ r.games[g].phase = PLACEMENT

\* A game in waiting with one player, and an open socket whose join fills it.
C15_Witness ==
  \E g \in DOMAIN games :
    /\ games[g].phase = WAITING
    /\ Len(games[g].players) = 1
    /\ games[g].players[1].id = 0
    /\ \E w \in Conns :
         /\ readyState[w] = OPEN
         /\ w # games[g].players[1].ws
         /\ handleJoin(games, playerConnections, readyState, w, "room")
              .games[g].phase = PLACEMENT

\* ---------------------------------------------------------------------- C16
\* The reply of handleCreateRoom.
RoomCreated(r) == r.out[Len(r.out)]

\* C16: every live game is registered under its own id, which is in upper
\* case; createRoom with an id that fails validateRoomId is answered "Invalid
\* room ID format", with a valid id whose upper-case form is live "Room ID
\* already exists", both without a change to the registry, and otherwise
\* adds an empty waiting game under the upper-case id; a join naming an id
\* that is not live and fails validateRoomId gets the same answer and changes
\* nothing.
C16_RoomIdsUnique ==
  /\ \A g \in DOMAIN games : games[g].id = g /\ toUpperCase(g) = g
  /\ \A w \in Conns, roomId \in RoomInputs :
       LET r == handleCreateRoom(games, playerConnections, w, roomId)
           j == handleJoin(games, playerConnections, readyState, w, roomId)
           g == toUpperCase(roomId)
       IN /\ ~validateRoomId(roomId) =>
               /\ ~RoomCreated(r).success
               /\ RoomCreated(r).error = "Invalid room ID format"
               /\ r.games = games /\ r.pc = playerConnections
               /\ Len(r.out) = 1
               /\ g \notin DOMAIN games =>
                    /\ ~Joined(j).success
                    /\ Joined(j).error = "Invalid room ID format"
                    /\ j.games = games /\ j.pc = playerConnections
                    /\ Len(j.out) = 1
          /\ (validateRoomId(roomId) /\ g \in DOMAIN games) =>
               /\ ~RoomCreated(r).success
               /\ RoomCreated(r).error = "Room ID already exists"
               /\ r.games = games /\ r.pc = playerConnections
               /\ Len(r.out) = 1
          /\ (validateRoomId(roomId) /\ g \notin DOMAIN games) =>
               /\ RoomCreated(r).success
               /\ RoomCreated(r).gameId = g
               /\ DOMAIN r.games = DOMAIN games \cup {g}
               /\ r.games[g].players = <<>>
               /\ r.games[g].phase = WAITING
               /\ \A h \in DOMAIN games : r.games[h] = games[h]

\* The game ROOM is live with players in it, and a createRoom naming it in
\* lower case is turned down.
C16_Witness ==
  /\ "ROOM" \in DOMAIN games
  /\ Len(games["ROOM"].players) = 2
  /\ \E w \in Conns :
       /\ readyState[w] = OPEN
       /\ RoomCreated(handleCreateRoom(games, playerConnections, w, "room")).error
            = "Room ID already exists"
       /\ RoomCreated(handleCreateRoom(games, playerConnections, w, "bad")).error
            = "Invalid room ID format"

\* ---------------------------------------------------------------------- C17
\* The handler result r turns its intent down: its reply says so.
Rejected(r) ==
  /\ r.out # <<>>
  /\ LET m == r.out[Len(r.out)]
     IN \/ m.type \in {"placeTankResult", "moveTankResult", "joined", "roomCreated"}
           /\ ~m.success
        \/ m.type = "bombResult"
           /\ m.result \in {"Not your turn", "Invalid players", "Out of bounds",
                            "Already bombed"}

\* The handler result r changed nothing and sent its reply only.
NoEffect(r) ==
  /\ r.games = games
  /\ r.pc = playerConnections
  /\ Len(r.out) = 1

\* C17: a rejected placeTank, moveTank, bomb, join or createRoom changes
\* neither the registry nor any game nor any binding and sends nothing but
\* its reply, and the same intent sent again to the resulting state gets the
\* same reply.
C17_RejectionsChangeNothing ==
  \A w \in Conns :
    readyState[w] = OPEN =>
      /\ \A c \in AnyCoord :
           LET p == handlePlaceTank(games, playerConnections, readyState, w, c[1], c[2])
               b == handleBomb(games, playerConnections, readyState, w, c[1], c[2])
           IN /\ Rejected(p) =>
                   /\ NoEffect(p)
                   /\ handlePlaceTank(p.games, p.pc, readyState, w, c[1], c[2]) = p
              /\ Rejected(b) =>
                   /\ NoEffect(b)
                   /\ handleBomb(b.games, b.pc, readyState, w, c[1], c[2]) = b
              /\ \A t \in AnyCoord :
                   LET m == handleMoveTank(games, playerConnections, readyState, w,
                                           c[1], c[2], t[1], t[2])
                   IN Rejected(m) =>
                        /\ NoEffect(m)
                        /\ handleMoveTank(m.games, m.pc, readyState, w,
                                          c[1], c[2], t[1], t[2]) = m
      /\ \A roomId \in RoomInputs :
           LET j == handleJoin(games, playerConnections, readyState, w, roomId)
               r == handleCreateRoom(games, playerConnections, w, roomId)
           IN /\ Rejected(j) =>
                   /\ NoEffect(j)
                   /\ handleJoin(j.games, j.pc, readyState, w, roomId) = j
              /\ Rejected(r) =>
                   /\ NoEffect(r)
                   /\ handleCreateRoom(r.games, r.pc, w, roomId) = r

\* A battle in which the player that is not on turn has its bomb, its move,
\* its placeTank, its join of the full game and its createRoom turned down,
\* and the player on turn its bomb on a cell it bombed before.
C17_Witness ==
  \E w, v \in Conns :
    /\ Bound(w) /\ Bound(v)
    /\ GameOf(w).phase = BATTLE
    /\ GameOf(w).currentTurn # playerConnections[w].playerId
    /\ Rejected(handleBomb(games, playerConnections, readyState, w, 0, 0))
    /\ Rejected(handleMoveTank(games, playerConnections, readyState, w, 0, 0, 2, 2))
    /\ Rejected(handlePlaceTank(games, playerConnections, readyState, w, 2, 2))
    /\ Joined(handleJoin(games, playerConnections, readyState, w, "room")).error
         = "Game is full"
    /\ Rejected(handleCreateRoom(games, playerConnections, w, "ROOM"))
    /\ Reply(handleBomb(games, playerConnections, readyState, v, 0, 0)).result
         = "Already bombed"
    /\ Reply(handleBomb(games, playerConnections, readyState, v, BOARD_SIZE, 0)).result
         = "Out of bounds"

\* ---------------------------------------------------------------------- C18
\* C18 as stated: a placeTank, moveTank or bomb from an open socket that has
\* no binding, or whose binding names a game that is not live, is answered
\* with a rejection to that socket and changes nothing.
C18_Original ==
  \A w \in Conns :
    (readyState[w] = OPEN /\ ~Bound(w)) =>
      \A c \in AnyCoord :
        LET p == handlePlaceTank(games, playerConnections, readyState, w, c[1], c[2])
            b == handleBomb(games, playerConnections, readyState, w, c[1], c[2])
            m == handleMoveTank(games, playerConnections, readyState, w,
                                c[1], c[2], 0, 0)
        IN /\ Rejected(p) /\ Reply(p).to = w /\ NoEffect(p)
           /\ Rejected(b) /\ Reply(b).to = w /\ NoEffect(b)
           /\ Rejected(m) /\ Reply(m).to = w /\ NoEffect(m)

\* ---------------------------------------------------------------------- C19
\* The number of gameState messages to socket w, and of messages to all, in
\* the sequence out.
ViewCount(out, w) ==
  Len(SelectSeq(out, LAMBDA m : m.type = "gameState" /\ m.to = w))

LobbyCount(out) == Len(SelectSeq(out, LAMBDA m : m.to = ToAll))

\* The handler result r sends one gameState to every open player of game g
\* as r leaves it, and one message to all if it changed the number of
\* players, the phase or the existence of g.
OneBroadcast(r, g) ==
  /\ g \in DOMAIN r.games =>
       \A k \in 1 .. Len(r.games[g].players) :
         readyState[r.games[g].players[k].ws] = OPEN =>
           ViewCount(r.out, r.games[g].players[k].ws) = 1
  /\ (\/ (g \in DOMAIN games) # (g \in DOMAIN r.games)
      \/ /\ g \in DOMAIN games /\ g \in DOMAIN r.games
         /\ \/ Len(r.games[g].players) # Len(games[g].players)
            \/ r.games[g].phase # games[g].phase)
       => LobbyCount(r.out) = 1

\* C19 as stated: every accepted placeTank, moveTank and bomb and every
\* leaveGame that changes a game sends one gameState to each open player of
\* the game and one message to all when the number of players, the phase or
\* the existence of the game changed.
C19_Original ==
  \A w \in Conns :
    Bound(w) =>
      LET g == playerConnections[w].gameId IN
      /\ \A c \in AnyCoord :
           LET p == handlePlaceTank(games, playerConnections, readyState, w, c[1], c[2])
               b == handleBomb(games, playerConnections, readyState, w, c[1], c[2])
           IN /\ Placed(p) => OneBroadcast(p, g)
              /\ Accepted(b) => OneBroadcast(b, g)
              /\ \A t \in CoordInputs :
                   LET m == handleMoveTank(games, playerConnections, readyState, w,
                                           c[1], c[2], t[1], t[2])
                   IN Accepted(m) => OneBroadcast(m, g)
      /\ LET l == handleLeaveGame(games, playerConnections, readyState, w)
         IN l.games # games => OneBroadcast(l, g)

\* ---------------------------------------------------------------------- C20
\* C20 as stated: the bomb that wins the game sends, in the same call, to
\* every open player of the game a gameState with phase gameover and the
\* attacker's playerId as winner.
C20_Original ==
  \A w \in Conns :
    Bound(w) =>
      \A c \in Pos :
        LET r == handleBomb(games, playerConnections, readyState, w, c[1], c[2])
            g == playerConnections[w].gameId
        IN Reply(r).gameOver =>
             \A k \in 1 .. Len(r.games[g].players) :
               readyState[r.games[g].players[k].ws] = OPEN =>
                 \E i \in 1 .. Len(r.out) :
                   /\ r.out[i].type = "gameState"
                   /\ r.out[i].to = r.games[g].players[k].ws
                   /\ r.out[i].view.phase = GAME_OVER
                   /\ r.out[i].view.winner = playerConnections[w].playerId

\* ---------------------------------------------------------------------- C21
\* C21 as stated, for the order in which the leave comes first: once
\* leaveGame has run for a bound socket, its placeTank, moveTank or bomb is
\* answered with a rejection and changes nothing.
C21_Original ==
  \A w \in Conns :
    Bound(w) =>
      LET left == leaveGame(games, playerConnections, readyState, w)
      IN \A c \in AnyCoord :
           LET p == handlePlaceTank(left.games, left.pc, readyState, w, c[1], c[2])
               b == handleBomb(left.games, left.pc, readyState, w, c[1], c[2])
               m == handleMoveTank(left.games, left.pc, readyState, w,
                                   c[1], c[2], 0, 0)
           IN /\ Rejected(p) /\ p.games = left.games /\ p.pc = left.pc
              /\ Rejected(b) /\ b.games = left.games /\ b.pc = left.pc
              /\ Rejected(m) /\ m.games = left.games /\ m.pc = left.pc

\* ---------------------------------------------------------------------- C22
\* The live games cleanupOldGames is to delete when those in `old` are older
\* than maxAge: the old ones and those without a player whose socket is OPEN.
Doomed(old) ==
  {g \in DOMAIN games :
     \/ g \in old
     \/ \A k \in 1 .. Len(games[g].players) : readyState[games[g].players[k].ws] # OPEN}

\* C22: whatever games are older than maxAge, cleanupOldGames deletes exactly
\* the old games and the games without an open player, sends one gameRemoved
\* for each of them and nothing else, and leaves the other games as they are.
C22_SweepExact ==
  \A old \in SUBSET (DOMAIN games) :
    LET r == cleanupOldGames(games, readyState, old)
    IN /\ DOMAIN r.games = DOMAIN games \ Doomed(old)
       /\ \A g \in DOMAIN r.games : r.games[g] = games[g]
       /\ \A g \in Doomed(old) : Len(About(r.out, "gameRemoved", g)) = 1
       /\ Len(r.out) = Cardinality(Doomed(old))

\* Two live games: ROOM, whose only player's socket is closing, and SIDE with
\* an open player; a sweep with SIDE old deletes both, one with no game old
\* deletes ROOM alone.
C22_Witness ==
  /\ DOMAIN games = {"ROOM", "SIDE"}
  /\ Len(games["ROOM"].players) = 1
  /\ readyState[games["ROOM"].players[1].ws] = CLOSING
  /\ Len(games["SIDE"].players) = 1
  /\ readyState[games["SIDE"].players[1].ws] = OPEN
  /\ DOMAIN cleanupOldGames(games, readyState, {}).games = {"SIDE"}
  /\ cleanupOldGames(games, readyState, {"SIDE"}).games = EmptyMap

\* ---------------------------------------------------------------------- C23
\* C23: with the cleanup timer firing again and again, every live game, with
\* or without players and whatever its players do, is at some later time not
\* in the registry.
C23_EveryGameSwept ==
  \A g \in {toUpperCase(id) : id \in LobbyRooms} :
    (g \in DOMAIN games) ~> (g \notin DOMAIN games)

\* Both sockets are open and bound to ROOM as its two players, and ROOM is
\* gone: the sweep took it from under them.
C23_Witness ==
  /\ games = EmptyMap
  /\ \A w \in Conns : readyState[w] = OPEN /\ w \in DOMAIN playerConnections
  /\ {playerConnections[w] : w \in Conns}
       = {[gameId |-> "ROOM", playerId |-> 0], [gameId |-> "ROOM", playerId |-> 1]}

\* ---------------------------------------------------------------------- C24
\* The live games, paired with a position, in which socket w is a player.
SlotsOf(w) ==
  {<<g, k>> \in (DOMAIN games) \X {1, 2} :
     k <= Len(games[g].players) /\ games[g].players[k].ws = w}

\* C24: a socket is a player in at most one place of all live games; a join
\* that succeeds for a socket bound to another live game leaves that game as
\* a leave does (deleted when no other open player is in it, reset to
\* waiting with that one player when it was past waiting, else untouched);
\* and a join answered "Game not found" or "Game is full" changes nothing.
C24_OneSlotPerConnection ==
  /\ \A w \in Conns : Cardinality(SlotsOf(w)) <= 1
  /\ \A w \in Conns, roomId \in LobbyRooms :
       LET j == handleJoin(games, playerConnections, readyState, w, roomId)
           target == toUpperCase(roomId)
       IN readyState[w] = OPEN =>
            /\ (/\ Joined(j).success
                /\ Bound(w)
                /\ playerConnections[w].gameId # target) =>
                 LET g == playerConnections[w].gameId
                     others == ConnectedBut(games[g], w)
                 IN /\ others = {} => g \notin DOMAIN j.games
                    /\ (Cardinality(others) = 1 /\ games[g].phase # WAITING) =>
                         /\ j.games[g].phase = WAITING
                         /\ Len(j.games[g].players) = 1
                         /\ j.games[g].players[1].ws # w
                         /\ j.pc[j.games[g].players[1].ws]
                              = [gameId |-> g, playerId |-> 0]
                    /\ (Cardinality(others) = 1 /\ games[g].phase = WAITING) =>
                         j.games[g] = games[g]
                    /\ j.pc[w].gameId = target
                    /\ \A k \in 1 .. Len(j.games[target].players) :
                         j.games[target].players[k].ws = w
                           => k = j.pc[w].playerId + 1
            /\ (~Joined(j).success
                /\ Joined(j).error \in {"Game not found", "Game is full"}) =>
                 NoEffect(j)

\* Both sockets play in ROOM, past waiting, and one of them is about to join
\* SIDE: ROOM will be reset to waiting with the other alone.
C24_Witness ==
  \E w \in Conns :
    /\ Bound(w)
    /\ playerConnections[w].gameId = "ROOM"
    /\ games["ROOM"].phase = PLACEMENT
    /\ ConnectedBut(games["ROOM"], w) # {}
    /\ LET j == handleJoin(games, playerConnections, readyState, w, "side")
       IN /\ Joined(j).success
          /\ j.games["ROOM"].phase = WAITING
          /\ j.games["SIDE"].players[1].ws = w
    /\ Joined(handleJoin(games, playerConnections, readyState, w, "room")).error
         = "Game is full"

\* ---------------------------------------------------------------------- C25
\* The cells listed in a player's tanks.
Listed(tanks) == {tanks[k] : k \in 1 .. Len(tanks)}

\* C25: no board holds more than TANKS_PER_PLAYER tanks; in placement a
\* placeTank is turned down, without any change, for a player that has
\* TANKS_PER_PLAYER tanks placed, for a cell out of bounds and for a cell
\* that is not EMPTY; an accepted placeTank sets that one cell of the
\* player's board to TANK, appends it to tanks, raises tanksAlive by one and
\* changes nothing else of that player and nothing of the other.
C25_PlaceExact ==
  /\ \A g \in DOMAIN games :
       \A k \in 1 .. Len(games[g].players) :
         TanksOn(games[g].players[k].board) <= TANKS_PER_PLAYER
  /\ \A w \in Conns :
       (/\ Bound(w)
        /\ playerConnections[w].playerId + 1 \in DOMAIN GameOf(w).players) =>
         LET g == playerConnections[w].gameId
             i == playerConnections[w].playerId + 1
             player == games[g].players[i]
         IN \A c \in AnyCoord :
              LET p == handlePlaceTank(games, playerConnections, readyState, w,
                                       c[1], c[2])
              IN /\ (\/ Len(player.tanks) >= TANKS_PER_PLAYER
                     \/ c \notin Pos
                     \/ player.board[c] # EMPTY) =>
                      Rejected(p) /\ NoEffect(p)
                 /\ Placed(p) =>
                      /\ p.games[g].players[i]
                           = [player EXCEPT
                                !.board = [q \in Pos |->
                                             IF q = c THEN TANK ELSE player.board[q]],
                                !.tanks = Append(player.tanks, c),
                                !.tanksAlive = player.tanksAlive + 1,
                                !.ready = p.games[g].players[i].ready]
                      /\ \A k \in 1 .. Len(games[g].players) :
                           k # i => p.games[g].players[k] = games[g].players[k]
                      /\ p.pc = playerConnections

\* In placement a player has all its tanks placed and its next placeTank on
\* an EMPTY cell is turned down, as are one on its own tank and one out of
\* bounds, while its opponent's placeTank is accepted.
C25_Witness ==
  \E w, v \in Conns :
    /\ Bound(w) /\ Bound(v)
    /\ GameOf(w).phase = PLACEMENT
    /\ playerConnections[v].gameId = playerConnections[w].gameId
    /\ Len(GameOf(w).players[playerConnections[w].playerId + 1].tanks)
         = TANKS_PER_PLAYER
    /\ Rejected(handlePlaceTank(games, playerConnections, readyState, w, 2, 2))
    /\ Len(GameOf(v).players[playerConnections[v].playerId + 1].tanks) = 1
    /\ Rejected(handlePlaceTank(games, playerConnections, readyState, v, 0, 0))
    /\ Rejected(handlePlaceTank(games, playerConnections, readyState, v, BOARD_SIZE, 0))
    /\ Placed(handlePlaceTank(games, playerConnections, readyState, v, 1, 0))

\* ---------------------------------------------------------------------- C26
\* C26: a moveTank is accepted only in battle, for the player on turn, from
\* a TANK cell to an EMPTY cell of its board, both in bounds; it sets the
\* first to EMPTY and the second to TANK, puts the new position in place of
\* the old one in tanks, gives the turn to the other player and raises
\* moveCount by one; tanksAlive of both players, the other player's board,
\* both visibleEnemyBoards, the phase and the winner stay as they are.
C26_MoveExact ==
  \A w \in Conns :
    (/\ Bound(w)
     /\ playerConnections[w].playerId + 1 \in DOMAIN GameOf(w).players) =>
      LET g == playerConnections[w].gameId
          i == playerConnections[w].playerId + 1
          player == games[g].players[i]
      IN \A c, t \in AnyCoord :
           LET m == handleMoveTank(games, playerConnections, readyState, w,
                                   c[1], c[2], t[1], t[2])
               after == m.games[g]
           IN Accepted(m) =>
                /\ games[g].phase = BATTLE
                /\ games[g].currentTurn = i - 1
                /\ c \in Pos /\ t \in Pos
                /\ player.board[c] = TANK /\ player.board[t] = EMPTY
                /\ after.players[i].board
                     = [q \in Pos |-> IF q = c THEN EMPTY
                                      ELSE IF q = t THEN TANK
                                      ELSE player.board[q]]
                /\ Len(after.players[i].tanks) = Len(player.tanks)
                /\ c \in Listed(player.tanks)
                /\ \A k \in 1 .. Len(player.tanks) :
                     after.players[i].tanks[k]
                       = IF player.tanks[k] = c THEN t ELSE player.tanks[k]
                /\ after.currentTurn = 1 - games[g].currentTurn
                /\ after.moveCount = games[g].moveCount + 1
                /\ after.phase = games[g].phase
                /\ after.winner = games[g].winner
                /\ Len(after.players) = Len(games[g].players)
                /\ \A k \in 1 .. Len(games[g].players) :
                     /\ after.players[k].tanksAlive = games[g].players[k].tanksAlive
                     /\ after.players[k].visibleEnemyBoard
                          = games[g].players[k].visibleEnemyBoard
                     /\ k # i => after.players[k] = games[g].players[k]

\* A battle after a move: a player's tank stands on <<2, 2>>, where no tank
\* is ever placed, and the turn is its opponent's.
C26_Witness ==
  \E g \in DOMAIN games :
    /\ games[g].phase = BATTLE
    /\ history[g].lastActor = 0
    /\ ~history[g].resetSince
    /\ games[g].currentTurn = 1
    /\ games[g].moveCount = 1
    /\ games[g].players[1].board[<<2, 2>>] = TANK
    /\ <<2, 2>> \in Listed(games[g].players[1].tanks)
    /\ games[g].players[1].tanksAlive = TANKS_PER_PLAYER

\* ---------------------------------------------------------------------- C27
\* C27: an accepted bomb on a TANK cell of the defender sets the cell to HIT,
\* takes the cell out of the defender's tanks, lowers the defender's
\* tanksAlive by one and is answered as a hit; on an EMPTY cell it sets the
\* cell to MISS and is answered "Miss"; either way the attacker's board is
\* unchanged and, unless the game is over, the turn goes to the other player
\* and moveCount rises by one.
C27_BombExact ==
  \A w \in Conns :
    (/\ Bound(w)
     /\ Len(GameOf(w).players) = 2
     /\ playerConnections[w].playerId \in {0, 1}) =>
      LET g == playerConnections[w].gameId
          a == playerConnections[w].playerId + 1
          d == 3 - a
          defender == games[g].players[d]
      IN \A c \in Pos :
           LET b == handleBomb(games, playerConnections, readyState, w, c[1], c[2])
               after == b.games[g]
           IN Accepted(b) =>
                /\ defender.board[c] = TANK =>
                     /\ after.players[d].board
                          = [q \in Pos |-> IF q = c THEN HIT ELSE defender.board[q]]
                     /\ Listed(after.players[d].tanks) = Listed(defender.tanks) \ {c}
                     /\ Len(after.players[d].tanks) = Len(defender.tanks) - 1
                     /\ after.players[d].tanksAlive = defender.tanksAlive - 1
                     /\ Reply(b).result \in {"DIRECT HIT", "DIRECT HIT VICTORY"}
                /\ defender.board[c] = EMPTY =>
                     /\ after.players[d].board
                          = [q \in Pos |-> IF q = c THEN MISS ELSE defender.board[q]]
                     /\ after.players[d].tanks = defender.tanks
                     /\ after.players[d].tanksAlive = defender.tanksAlive
                     /\ Reply(b).result = "Miss"
                /\ after.players[a].board = games[g].players[a].board
                /\ after.players[a].tanksAlive = games[g].players[a].tanksAlive
                /\ ~Reply(b).gameOver =>
                     /\ after.currentTurn = 1 - games[g].currentTurn
                     /\ after.moveCount = games[g].moveCount + 1
                     /\ after.phase = BATTLE

\* A battle after a hit and a miss: the player with playerId 1 has lost a
\* tank, the player with playerId 0 has a MISS on its board, and the turn is
\* back with playerId 0.
C27_Witness ==
  \E g \in DOMAIN games :
    /\ games[g].phase = BATTLE
    /\ ~history[g].resetSince
    /\ games[g].moveCount = 2
    /\ games[g].currentTurn = 0
    /\ games[g].players[2].tanksAlive = TANKS_PER_PLAYER - 1
    /\ Len(games[g].players[2].tanks) = TANKS_PER_PLAYER - 1
    /\ \E p \in Pos : games[g].players[2].board[p] = HIT
    /\ \E p \in Pos : games[g].players[1].board[p] = MISS
    /\ games[g].players[1].tanksAlive = TANKS_PER_PLAYER

\* ---------------------------------------------------------------------- C28
\* C28 as stated: a bomb by the player on turn, in battle, on a cell its
\* visibleEnemyBoard does not show as HIT or MISS but which is HIT or MISS on
\* the defender's board, is turned down and changes nothing.
C28_Original ==
  \A w \in Conns :
    (/\ Bound(w)
     /\ GameOf(w).phase = BATTLE
     /\ Len(GameOf(w).players) = 2
     /\ GameOf(w).currentTurn = playerConnections[w].playerId) =>
      LET a == playerConnections[w].playerId + 1
          attacker == GameOf(w).players[a]
          defender == GameOf(w).players[3 - a]
      IN \A c \in Pos :
           (/\ attacker.visibleEnemyBoard[c] \notin {HIT, MISS}
            /\ defender.board[c] \in {HIT, MISS}) =>
             LET b == handleBomb(games, playerConnections, readyState, w, c[1], c[2])
             IN Rejected(b) /\ NoEffect(b)

\* ---------------------------------------------------------------------- C29
\* C29: after an accepted bomb that does not end the game, every cell of the
\* attacker's visibleEnemyBoard at Chebyshev distance of at most
\* EXPLOSION_RADIUS from the target shows the defender's cell if that is
\* TANK, HIT or MISS and REVEALED otherwise, and every other cell is as it
\* was; the target itself shows HIT or MISS.
C29_RevealExact ==
  \A w \in Conns :
    (/\ Bound(w)
     /\ Len(GameOf(w).players) = 2
     /\ playerConnections[w].playerId \in {0, 1}) =>
      LET g == playerConnections[w].gameId
          a == playerConnections[w].playerId + 1
      IN \A c \in Pos :
           LET b == handleBomb(games, playerConnections, readyState, w, c[1], c[2])
               seen == b.games[g].players[a].visibleEnemyBoard
               theirs == b.games[g].players[3 - a].board
           IN (Accepted(b) /\ ~Reply(b).gameOver) =>
                /\ \A q \in Pos :
                     seen[q] = IF Chebyshev(c, q) <= EXPLOSION_RADIUS
                               THEN IF theirs[q] \in {TANK, HIT, MISS}
                                    THEN theirs[q] ELSE REVEALED
                               ELSE games[g].players[a].visibleEnemyBoard[q]
                /\ seen[c] \in {HIT, MISS}
                /\ Reply(b).result = "Miss" => seen[c] = MISS \/ theirs[c] = HIT

\* After a miss at <<0, 0>> by the player with playerId 1: MISS at the target,
\* the area around it REVEALED or TANK, the far corner still EMPTY.
C29_Witness ==
  \E g \in DOMAIN games :
    /\ games[g].phase = BATTLE
    /\ ~history[g].resetSince
    /\ history[g].lastActor = 1
    /\ games[g].players[1].board[<<0, 0>>] = MISS
    /\ games[g].players[2].visibleEnemyBoard[<<0, 0>>] = MISS
    /\ games[g].players[2].visibleEnemyBoard[<<1, 1>>] = REVEALED
    /\ games[g].players[2].visibleEnemyBoard[<<1, 0>>] \in {REVEALED, TANK}
    /\ games[g].players[2].visibleEnemyBoard[<<2, 2>>] = EMPTY

\* ---------------------------------------------------------------------- C30
\* C30 as stated: from one state to the next, a cell of a player's
\* visibleEnemyBoard that is not EMPTY does not become EMPTY, and a cell that
\* is HIT or MISS keeps its value.
C30_Original ==
  [][\A g \in DOMAIN games \cap DOMAIN games', w \in Conns :
       (Holds(games, g, w) /\ Holds(games', g, w)) =>
         \A p \in Pos :
           LET before == PlayerOf(games, g, w).visibleEnemyBoard[p]
               after == PlayerOf(games', g, w).visibleEnemyBoard[p]
           IN /\ before # EMPTY => after # EMPTY
              /\ before \in {HIT, MISS} => after = before
    ]_vars

\* ---------------------------------------------------------------------- C31
\* C31: revealArea applied a second time with the same centre to the board it
\* produced, the defender's board being the same, changes nothing; so after
\* an accepted bomb that does not end the game, revealArea at the bombed cell
\* leaves the attacker's visibleEnemyBoard as the bomb left it.
C31_RevealIdempotent ==
  /\ \A g \in DOMAIN games :
       \A a \in 1 .. Len(games[g].players), d \in 1 .. Len(games[g].players) :
         \A c \in Pos :
           LET once == revealArea(games[g].players[a].visibleEnemyBoard,
                                  games[g].players[d].board, c[1], c[2])
           IN revealArea(once, games[g].players[d].board, c[1], c[2]) = once
  /\ \A w \in Conns :
       (Bound(w) /\ Len(GameOf(w).players) = 2
        /\ playerConnections[w].playerId \in {0, 1}) =>
         LET g == playerConnections[w].gameId
             a == playerConnections[w].playerId + 1
         IN \A c \in Pos :
              LET b == handleBomb(games, playerConnections, readyState, w, c[1], c[2])
              IN (Accepted(b) /\ ~Reply(b).gameOver) =>
                   revealArea(b.games[g].players[a].visibleEnemyBoard,
                              b.games[g].players[3 - a].board, c[1], c[2])
                     = b.games[g].players[a].visibleEnemyBoard

\* A battle in which a player has bombed and revealArea at another centre
\* would change what it sees.
C31_Witness ==
  \E g \in DOMAIN games :
    /\ games[g].phase = BATTLE
    /\ Len(games[g].players) = 2
    /\ \E p \in Pos : games[g].players[1].visibleEnemyBoard[p] \in {HIT, MISS}
    /\ \E p \in Pos : games[g].players[1].visibleEnemyBoard[p] = REVEALED
    /\ \E c \in Pos :
         revealArea(games[g].players[1].visibleEnemyBoard,
                    games[g].players[2].board, c[1], c[2])
           # games[g].players[1].visibleEnemyBoard

\* ---------------------------------------------------------------------- C32
\* The registry with cell p of the visibleEnemyBoard of player k of game g
\* set to v.
WithObserved(g, k, p, v) ==
  [games EXCEPT ![g].players[k].visibleEnemyBoard[p] = v]

\* The cells and values the visibleEnemyBoard is varied over.
ObservedCells == Pos \cap CoordInputs

ObservedValues == {EMPTY, HIT, REVEALED}

\* C32 as stated: a placeTank, moveTank or bomb is accepted in a state exactly
\* when it is accepted in the state that differs from it in one cell of one
\* visibleEnemyBoard.
C32_Original ==
  \A w \in Conns :
    Bound(w) =>
      LET g == playerConnections[w].gameId
      IN \A k \in 1 .. Len(games[g].players), p \in ObservedCells,
            v \in ObservedValues :
           LET other == WithObserved(g, k, p, v)
           IN \A c \in CoordInputs :
                /\ Placed(handlePlaceTank(other, playerConnections, readyState,
                                          w, c[1], c[2]))
                     <=> Placed(handlePlaceTank(games, playerConnections,
                                                readyState, w, c[1], c[2]))
                /\ Accepted(handleBomb(other, playerConnections, readyState,
                                       w, c[1], c[2]))
                     <=> Accepted(handleBomb(games, playerConnections,
                                             readyState, w, c[1], c[2]))
                /\ \A t \in CoordInputs :
                     Accepted(handleMoveTank(other, playerConnections, readyState,
                                             w, c[1], c[2], t[1], t[2]))
                       <=> Accepted(handleMoveTank(games, playerConnections,
                                                   readyState, w,
                                                   c[1], c[2], t[1], t[2]))

\* C32: a placeTank or moveTank is accepted in a state exactly when it is
\* accepted in the state that differs from it in one cell of one
\* visibleEnemyBoard, and so is a bomb unless the cell that differs is the
\* bombed cell of the sender's own visibleEnemyBoard and is HIT or MISS in one
\* of the two states only.
C32_OnlyBombedCellCounts ==
  \A w \in Conns :
    Bound(w) =>
      LET g == playerConnections[w].gameId
          a == playerConnections[w].playerId + 1
      IN \A k \in 1 .. Len(games[g].players), p \in ObservedCells,
            v \in ObservedValues :
           LET other == WithObserved(g, k, p, v)
               seen == games[g].players[k].visibleEnemyBoard[p]
           IN \A c \in CoordInputs :
                /\ Placed(handlePlaceTank(other, playerConnections, readyState,
                                          w, c[1], c[2]))
                     <=> Placed(handlePlaceTank(games, playerConnections,
                                                readyState, w, c[1], c[2]))
                /\ (k = a /\ p = c /\ (v \in {HIT, MISS}) # (seen \in {HIT, MISS}))
                   \/ (Accepted(handleBomb(other, playerConnections, readyState,
                                           w, c[1], c[2]))
                         <=> Accepted(handleBomb(games, playerConnections,
                                                 readyState, w, c[1], c[2])))
                /\ \A t \in CoordInputs :
                     Accepted(handleMoveTank(other, playerConnections, readyState,
                                             w, c[1], c[2], t[1], t[2]))
                       <=> Accepted(handleMoveTank(games, playerConnections,
                                                   readyState, w,
                                                   c[1], c[2], t[1], t[2]))

\* A battle in which the player on turn sees a cell as MISS, so that its bomb
\* there is turned down, and sees another cell as REVEALED, where its bomb is
\* accepted.
C32_Witness ==
  \E w \in Conns :
    /\ Bound(w)
    /\ GameOf(w).phase = BATTLE
    /\ Len(GameOf(w).players) = 2
    /\ GameOf(w).currentTurn = playerConnections[w].playerId
    /\ \E p \in ObservedCells, q \in ObservedCells :
         /\ GameOf(w).players[playerConnections[w].playerId + 1]
              .visibleEnemyBoard[p] = MISS
         /\ ~Accepted(handleBomb(games, playerConnections, readyState, w, p[1], p[2]))
         /\ GameOf(w).players[playerConnections[w].playerId + 1]
              .visibleEnemyBoard[q] = REVEALED
         /\ Accepted(handleBomb(games, playerConnections, readyState, w, q[1], q[2]))

\* ---------------------------------------------------------------------- C33
\* C33: a bomb that ends the game changes, in its game, the bombed cell of
\* the defender's board to HIT, the defender's tanks (the cell is taken out),
\* the defender's tanksAlive (to zero), the phase (to gameover) and the
\* winner (to the attacker); currentTurn, moveCount, actionTaken, the
\* attacker and its visibleEnemyBoard, and every other game stay as they are.
C33_WinningBombFrame ==
  \A w \in Conns :
    (/\ Bound(w)
     /\ Len(GameOf(w).players) = 2
     /\ playerConnections[w].playerId \in {0, 1}) =>
      LET g == playerConnections[w].gameId
          a == playerConnections[w].playerId + 1
          d == 3 - a
          defender == games[g].players[d]
      IN \A c \in Pos :
           LET b == handleBomb(games, playerConnections, readyState, w, c[1], c[2])
           IN Reply(b).gameOver =>
                /\ b.pc = playerConnections
                /\ b.games =
                     [games EXCEPT
                        ![g] = [games[g] EXCEPT
                                  !.phase = GAME_OVER,
                                  !.winner = a - 1,
                                  !.players[d] =
                                    [defender EXCEPT
                                       !.board[c] = HIT,
                                       !.tanksAlive = 0,
                                       !.tanks = SelectSeq(defender.tanks,
                                                           LAMBDA t : t # c)]]]
                /\ b.games[g].currentTurn = games[g].currentTurn
                /\ b.games[g].moveCount = games[g].moveCount
                /\ b.games[g].players[a].visibleEnemyBoard[c]
                     = games[g].players[a].visibleEnemyBoard[c]

\* A game just won by the player with playerId 0: the turn is still its own
\* and its visibleEnemyBoard shows fewer HIT cells than the loser's board has.
C33_Witness ==
  \E g \in DOMAIN games :
    /\ games[g].phase = GAME_OVER
    /\ Len(games[g].players) = 2
    /\ games[g].winner = 0
    /\ games[g].currentTurn = 0
    /\ games[g].players[2].tanksAlive = 0
    /\ Cardinality({p \in Pos : games[g].players[2].board[p] = HIT})
         > Cardinality({p \in Pos : games[g].players[1].visibleEnemyBoard[p] = HIT})
    /\ ~history[g].resetSince

\* ---------------------------------------------------------------------- C34
\* C34 as stated, for the weakest limit there is: no accepted moveTank takes a
\* tank as far as the board allows, BOARD_SIZE - 1 cells away.
C34_Original ==
  \A w \in Conns :
    Bound(w) =>
      \A c \in AnyCoord, t \in AnyCoord :
        Accepted(handleMoveTank(games, playerConnections, readyState, w,
                                c[1], c[2], t[1], t[2]))
          => Chebyshev(c, t) < BOARD_SIZE - 1

\* ---------------------------------------------------------------------- C35
\* C35 as stated: every entry of playerConnections names a live game whose
\* player at playerId has that socket, and every player of a live game has
\* its socket bound to the game and to its position.
C35_Original ==
  /\ \A w \in DOMAIN playerConnections :
       /\ playerConnections[w].gameId \in DOMAIN games
       /\ playerConnections[w].playerId + 1
            \in DOMAIN games[playerConnections[w].gameId].players
       /\ games[playerConnections[w].gameId]
            .players[playerConnections[w].playerId + 1].ws = w
  /\ \A g \in DOMAIN games :
       \A k \in 1 .. Len(games[g].players) :
         /\ games[g].players[k].ws \in DOMAIN playerConnections
         /\ playerConnections[games[g].players[k].ws].gameId = g
         /\ playerConnections[games[g].players[k].ws].playerId = k - 1

\* ---------------------------------------------------------------------- C36
\* C36 as stated: when the reply to a join says success, the game asked for
\* is live and one of its players has the sender's socket.
C36_Original ==
  \A w \in Conns, gameId \in RoomInputs :
    readyState[w] = OPEN =>
      LET j == handleJoin(games, playerConnections, readyState, w, gameId)
      IN Joined(j).success => Holds(j.games, toUpperCase(gameId), w)

\* ---------------------------------------------------------------------- C37
\* C37 as stated: a placeTank, moveTank or bomb that changes the registry
\* comes from a socket that is the socket of the player it is bound to.
C37_Original ==
  \A w \in Sockets :
    readyState[w] = OPEN =>
      \A c \in CoordInputs, t \in CoordInputs :
        (\/ handlePlaceTank(games, playerConnections, readyState, w,
                            c[1], c[2]).games # games
         \/ handleBomb(games, playerConnections, readyState, w,
                       c[1], c[2]).games # games
         \/ handleMoveTank(games, playerConnections, readyState, w,
                           c[1], c[2], t[1], t[2]).games # games)
          => /\ Bound(w)
             /\ playerConnections[w].playerId + 1 \in DOMAIN GameOf(w).players
             /\ GameOf(w).players[playerConnections[w].playerId + 1].ws = w

\* ---------------------------------------------------------------------- C38
\* C38 as stated: a live game has a winner exactly when it is in gameover.
C38_Original ==
  \A g \in DOMAIN games :
    games[g].winner # NoWinner <=> games[g].phase = GAME_OVER

\* ---------------------------------------------------------------------- C39
\* C39 as stated: in the step that takes a game into battle each of its
\* players has TANKS_PER_PLAYER tanks alive, and no game is in battle with a
\* player that has none.
C39_Original ==
  /\ [](\A g \in DOMAIN games :
          games[g].phase = BATTLE =>
            \A k \in 1 .. Len(games[g].players) : games[g].players[k].tanksAlive > 0)
  /\ [][\A g \in DOMAIN games \cap DOMAIN games' :
          (games[g].phase # BATTLE /\ games'[g].phase = BATTLE) =>
            \A k \in 1 .. Len(games'[g].players) :
              games'[g].players[k].tanksAlive = TANKS_PER_PLAYER
       ]_vars

\* ---------------------------------------------------------------------- C40
\* C40 as stated: in battle no TANK cell of a player's board is HIT or MISS on
\* the other player's visibleEnemyBoard.
C40_Original ==
  \A g \in DOMAIN games :
    (games[g].phase = BATTLE /\ Len(games[g].players) = 2) =>
      \A k \in 1 .. 2, p \in Pos :
        games[g].players[k].board[p] = TANK
          => games[g].players[3 - k].visibleEnemyBoard[p] \notin {HIT, MISS}

====
